---- MODULE Spec2Model ----
(***************************************************************************)
(* Reading-progress synchronisation with the Hardcover service:            *)
(*   - HardcoverClient.ts: the process-wide circuit breaker, the per-client*)
(*     rate limiter and graphqlRequest;                                     *)
(*   - useHardcoverSync.ts: the per-book hook (pull, debounced push,        *)
(*     conflict resolution, flush on close).                                *)
(* Time is in milliseconds, as in the source.                               *)
(***************************************************************************)
EXTENDS Integers, Sequences, FiniteSets, TLC

\* ------------------------------------------------------------------------
\* Program constants (HardcoverClient.ts)
\* ------------------------------------------------------------------------
RATE_LIMIT_WINDOW == 60000
CIRCUIT_BREAKER_THRESHOLD == 3
CIRCUIT_BREAKER_TIMEOUT == 60000
CIRCUIT_BREAKER_HALF_OPEN_REQUESTS == 1
\* checkRateLimit: "+ 100" safety margin added to the wait
RateLimitMargin == 100
\* checkRateLimit: "this.config.rateLimitBuffer || 50"
DefaultRateLimitBuffer == 50

\* ------------------------------------------------------------------------
\* Bounds of the model
\* ------------------------------------------------------------------------
\* admitted graphqlRequest calls of one client within one rate-limit window
MaxPerWindow == 3
\* number of graphqlRequest calls that are under way at the same time
MaxInFlight == 2
\* the clock advances to the next multiple of TimeStep or to the next timer,
\* MaxTicks steps at most
MaxTicks == 4
\* settings.hardcover.rateLimitBuffer in the behaviours of SpecThrottle
ThrottleBudget == 2
\* pageInfo.total of the open book
LocalTotal == 20
\* pulls requested by the user that are under way at the same time
MaxManualPulls == 1
\* pushProgressInternal calls that are under way at the same time
MaxPushes == 2
\* ids of the remote read sessions
MaxReadId == 1
\* page counts of the paginations that SpecMap converts between
MaxTotal == 12
\* remote read sessions of one user book
MaxReads == 3
\* progress_pages of a remote read session
MaxProgress == 2
\* hits of one catalog search
MaxCandidates == 2

TimeStep == CIRCUIT_BREAKER_TIMEOUT \div 2
MaxTime == MaxTicks * TimeStep

Clients == {1, 2}
Slots == 1..MaxInFlight

VARIABLES
    settings,           \* settings.hardcover: strategy, syncFrequency
    book,               \* bookData.book: isFixedLayout, updatedAt
    remote,             \* the remote edition of the book: its page count
    hook,               \* one useHardcoverSync instance: state, refs, tasks
    pageMap,            \* a page on its way to the remote pagination and back
    cleanup,            \* one cleanupDuplicateReads call: its reads, its loop, its result
    matching,           \* one matchBook call of the hook: book, answers, match
    lastPull,           \* history: what the last pull compared and decided
    closeLog,           \* history: the pushes the close path started
    statusLog,          \* history: the status updates sent so far
    readLog,            \* history: the read ids the remote reported stale
    now,                \* Date.now()
    circuitBreaker,     \* CircuitBreakerState singleton
    config,             \* this.config of each client: apiToken, rateLimitBuffer
    requestTimestamps,  \* this.requestTimestamps of each client
    req,                \* the graphqlRequest calls that are under way
    \* history variables, each kept by the specifications that observe it
    httpCalls,          \* per client, times of its fetch calls still in the window
    streak,             \* consecutive failed requests, none an auth failure
    streakAt,           \* time of the last of them
    nonAuthFailures,    \* failed requests so far that are no auth failure
    probes,             \* requests admitted since HALF_OPEN was entered
    gateLog             \* the probes under way and how the last request ended

clientVars == <<now, circuitBreaker, config, requestTimestamps, req>>
historyVars == <<httpCalls, streak, streakAt, nonAuthFailures, probes, gateLog>>

hookVars == <<settings, book, remote, hook, pageMap, cleanup, matching>>
hookHistoryVars == <<lastPull, closeLog, statusLog, readLog>>

vars == <<clientVars, historyVars, hookVars, hookHistoryVars>>

\* ------------------------------------------------------------------------
\* CircuitBreakerState and the client's transition functions
\* ------------------------------------------------------------------------
CircuitBreakerInit ==
    [state |-> "CLOSED", failureCount |-> 0, lastFailureTime |-> 0,
     halfOpenAttempts |-> 0, hasNotifiedDisconnect |-> FALSE]

\* canMakeRequest with a rejection under OPEN recorded as a failure
canMakeRequest_Mut(cb, t) ==
    CASE cb.state = "CLOSED" -> [allowed |-> TRUE, cb |-> cb]
      [] cb.state = "OPEN" ->
            IF t - cb.lastFailureTime >= CIRCUIT_BREAKER_TIMEOUT
            THEN [allowed |-> TRUE,
                  cb |-> [cb EXCEPT !.state = "HALF_OPEN", !.halfOpenAttempts = 0]]
            ELSE [allowed |-> FALSE, cb |-> [cb EXCEPT !.lastFailureTime = t]]
      [] cb.state = "HALF_OPEN" ->
            IF cb.halfOpenAttempts < CIRCUIT_BREAKER_HALF_OPEN_REQUESTS
            THEN [allowed |-> TRUE,
                  cb |-> [cb EXCEPT !.halfOpenAttempts = @ + 1]]
            ELSE [allowed |-> FALSE, cb |-> cb]

\* canMakeRequest: the verdict and the breaker it leaves behind
canMakeRequest(cb, t) ==
    CASE cb.state = "CLOSED" -> [allowed |-> TRUE, cb |-> cb]
      [] cb.state = "OPEN" ->
            IF t - cb.lastFailureTime >= CIRCUIT_BREAKER_TIMEOUT
            THEN [allowed |-> TRUE,
                  cb |-> [cb EXCEPT !.state = "HALF_OPEN", !.halfOpenAttempts = 0]]
            ELSE [allowed |-> FALSE, cb |-> cb]
      [] cb.state = "HALF_OPEN" ->
            IF cb.halfOpenAttempts < CIRCUIT_BREAKER_HALF_OPEN_REQUESTS
            THEN [allowed |-> TRUE,
                  cb |-> [cb EXCEPT !.halfOpenAttempts = @ + 1]]
            ELSE [allowed |-> FALSE, cb |-> cb]

recordSuccess(cb) ==
    IF cb.state = "HALF_OPEN"
    THEN [cb EXCEPT !.state = "CLOSED", !.lastFailureTime = -1, !.failureCount = 0]
    ELSE [cb EXCEPT !.failureCount = 0]

\* error.includes('AUTH_FAILED')
IsAuthError(error) == error = "HARDCOVER_AUTH_FAILED"

recordFailure(cb, error, t) ==
    LET counted == [cb EXCEPT !.failureCount = @ + 1, !.lastFailureTime = t]
    IN  IF IsAuthError(error) THEN counted
        ELSE IF counted.state = "HALF_OPEN"
        THEN [counted EXCEPT !.state = "OPEN",
                             !.failureCount = CIRCUIT_BREAKER_THRESHOLD]
        ELSE IF counted.failureCount >= CIRCUIT_BREAKER_THRESHOLD
        THEN [counted EXCEPT !.state = "OPEN"]
        ELSE counted

\* checkAndClearRecoveryFlag: the value returned and the breaker left behind
checkAndClearRecoveryFlag(cb) ==
    IF cb.lastFailureTime = -1
    THEN [recovered |-> TRUE,
          cb |-> [cb EXCEPT !.lastFailureTime = 0, !.hasNotifiedDisconnect = FALSE]]
    ELSE [recovered |-> FALSE, cb |-> cb]

markDisconnectNotified(cb) == [cb EXCEPT !.hasNotifiedDisconnect = TRUE]

\* ------------------------------------------------------------------------
\* checkRateLimit
\* ------------------------------------------------------------------------
RECURSIVE FilterWindow(_, _)
\* this.requestTimestamps.filter((ts) => now - ts < RATE_LIMIT_WINDOW)
FilterWindow(stamps, t) ==
    IF stamps = <<>> THEN <<>>
    ELSE IF t - Head(stamps) < RATE_LIMIT_WINDOW
         THEN <<Head(stamps)>> \o FilterWindow(Tail(stamps), t)
         ELSE FilterWindow(Tail(stamps), t)

\* this.config.rateLimitBuffer || 50
Buffer(c) ==
    IF config[c].rateLimitBuffer = 0 THEN DefaultRateLimitBuffer
    ELSE config[c].rateLimitBuffer

\* the wait of checkRateLimit for the filtered stamps, 0 when it does not wait
WaitTime(c, stamps, t) ==
    IF Len(stamps) >= Buffer(c)
    THEN LET w == RATE_LIMIT_WINDOW - (t - stamps[1]) + RateLimitMargin
         IN  IF w > 0 THEN w ELSE 0
    ELSE 0

\* ------------------------------------------------------------------------
\* graphqlRequest: what the remote answers and what the client makes of it
\* ------------------------------------------------------------------------
\* gqlAuth: json.errors whose message has 401, 403, Unauthorized or Forbidden
Responses == {"ok", "http401", "http429", "http5xx", "httpOther",
              "fetchThrows", "otherThrows", "gqlAuth", "gqlRateLimit", "gqlOther"}

\* the message of the error graphqlRequest throws ("ok": it returns)
ErrorOf(resp) ==
    CASE resp = "ok" -> "ok"
      [] resp \in {"http401", "gqlAuth"} -> "HARDCOVER_AUTH_FAILED"
      [] resp \in {"http429", "gqlRateLimit"} -> "HARDCOVER_RATE_LIMIT"
      [] resp = "http5xx" -> "HARDCOVER_SERVER_ERROR"
      [] resp = "httpOther" -> "HARDCOVER_API_ERROR"
      [] resp = "fetchThrows" -> "HARDCOVER_NETWORK_ERROR"
      [] resp = "otherThrows" -> "other error"
      [] resp = "gqlOther" -> "HARDCOVER_GRAPHQL_ERROR"

\* The errors thrown for a bad HTTP status are caught by the catch block, found
\* to start with HARDCOVER_ and re-thrown: recordFailure is not called for them.
RecordsFailure(resp) ==
    resp \in {"fetchThrows", "otherThrows", "gqlAuth", "gqlRateLimit", "gqlOther"}

\* the breaker after the response has been classified
AfterResponse(cb, resp, t) ==
    IF resp = "ok" THEN recordSuccess(cb)
    ELSE IF RecordsFailure(resp) THEN recordFailure(cb, ErrorOf(resp), t)
    ELSE cb

\* pc: idle, throttle (waiting in checkRateLimit), http (fetch under way)
IdleReq == [pc |-> "idle", client |-> 0, ts |-> 0, wakeAt |-> 0]

\* a call takes the first free slot
FreeSlot(s) == req[s].pc = "idle" /\ \A q \in Slots : q < s => req[q].pc # "idle"

\* the calls of client c that wait in checkRateLimit
Waiting(c) == {s \in Slots : req[s].pc = "throttle" /\ req[s].client = c}

Min(S) == CHOOSE x \in S : \A y \in S : x <= y

\* no page is being converted
NoPageMap == [pc |-> "idle"]

\* no cleanupDuplicateReads call is under way
NoCleanup == [pc |-> "idle"]

\* no matchBook call is under way
NoMatching == [pc |-> "idle"]

\* the close path has started nothing
NoCloseLog ==
    [quiet |-> FALSE, writes |-> 0, failed |-> FALSE, forced |-> {},
     forceWrote |-> FALSE]

\* no probe is under way, no request has ended, no recovery awaits its notice
NoGateLog == [probe |-> {}, resp |-> "none", recovery |-> FALSE]

\* the remote has reported no read id stale and has created no read
NoReadLog == [stale |-> {}, created |-> 0]

\* no status update has been sent
NoStatusLog ==
    [read |-> 0, currentlyReading |-> 0, reached |-> FALSE, enabledAll |-> TRUE]

\* no book is open: the hook's variables stay as they are
HookIdle ==
    /\ settings = [strategy |-> "prompt", syncFrequency |-> "page"]
    /\ book = [isFixedLayout |-> FALSE, updatedAt |-> 0]
    /\ remote = [pages |-> 0]
    /\ hook = [phase |-> "closed"]
    /\ pageMap = NoPageMap
    /\ cleanup = NoCleanup
    /\ matching = NoMatching
    /\ lastPull = [id |-> 0]
    /\ closeLog = NoCloseLog
    /\ statusLog = NoStatusLog
    /\ readLog = NoReadLog

\* How graphqlRequest of client c, called now, goes on after its synchronous
\* part: it throws HARDCOVER_CIRCUIT_OPEN or HARDCOVER_AUTH_FAILED, waits in
\* checkRateLimit ("throttle") or fetches ("http").
IssueVerdict(c) ==
    LET gate == canMakeRequest(circuitBreaker, now)
        stamps == FilterWindow(requestTimestamps[c], now)
    IN  IF ~gate.allowed THEN "HARDCOVER_CIRCUIT_OPEN"
        ELSE IF config[c].apiToken = "" THEN "HARDCOVER_AUTH_FAILED"
        ELSE IF WaitTime(c, stamps, now) > 0 THEN "throttle"
        ELSE "http"

\* ------------------------------------------------------------------------
\* Actions of the client
\* ------------------------------------------------------------------------
\* graphqlRequest up to its first await: gate, credential, checkRateLimit
Issue(s, c) ==
    /\ FreeSlot(s)
    /\ LET gate == canMakeRequest(circuitBreaker, now)
           stamps == FilterWindow(requestTimestamps[c], now)
           verdict == IssueVerdict(c)
       IN  /\ circuitBreaker' = gate.cb
           /\ CASE verdict \in {"HARDCOVER_CIRCUIT_OPEN", "HARDCOVER_AUTH_FAILED"} ->
                    UNCHANGED <<requestTimestamps, req>>
                [] verdict = "throttle" ->
                    /\ Len(stamps) + Cardinality(Waiting(c)) < MaxPerWindow
                    /\ requestTimestamps' = [requestTimestamps EXCEPT ![c] = stamps]
                    /\ req' = [req EXCEPT ![s] = [pc |-> "throttle", client |-> c,
                             ts |-> now, wakeAt |-> now + WaitTime(c, stamps, now)]]
                [] verdict = "http" ->
                    /\ Len(stamps) + Cardinality(Waiting(c)) < MaxPerWindow
                    /\ requestTimestamps' =
                          [requestTimestamps EXCEPT ![c] = Append(stamps, now)]
                    /\ req' = [req EXCEPT ![s] = [IdleReq EXCEPT !.pc = "http",
                                                                !.client = c]]
    /\ UNCHANGED <<now, config, hookVars, hookHistoryVars>>

\* the timer of checkRateLimit fires: push(now) with the now read before the
\* wait, then the fetch
Wake(s) ==
    /\ req[s].pc = "throttle"
    /\ now >= req[s].wakeAt
    /\ requestTimestamps' = [requestTimestamps EXCEPT
                               ![req[s].client] = Append(@, req[s].ts)]
    /\ req' = [req EXCEPT ![s] = [IdleReq EXCEPT !.pc = "http",
                                                !.client = req[s].client]]
    /\ UNCHANGED <<now, circuitBreaker, config, hookVars, hookHistoryVars>>

\* the fetch settles, the response is classified and the call returns or throws
Respond(s, resp) ==
    /\ req[s].pc = "http"
    /\ circuitBreaker' = AfterResponse(circuitBreaker, resp, now)
    /\ req' = [req EXCEPT ![s] = IdleReq]
    /\ UNCHANGED <<now, config, requestTimestamps, hookVars, hookHistoryVars>>

\* the times at which something is due
Deadlines ==
    {req[s].wakeAt : s \in {q \in Slots : req[q].pc = "throttle"}}
    \cup (IF circuitBreaker.state = "OPEN"
          THEN {circuitBreaker.lastFailureTime + CIRCUIT_BREAKER_TIMEOUT} ELSE {})

NextTime ==
    Min({((now \div TimeStep) + 1) * TimeStep} \cup {d \in Deadlines : d > now})

\* time passes; a timer that is due fires before the clock moves on
Tick ==
    /\ \A s \in Slots : req[s].pc = "throttle" => now < req[s].wakeAt
    /\ NextTime <= MaxTime
    /\ now' = NextTime
    /\ UNCHANGED <<circuitBreaker, config, requestTimestamps, req, hookVars,
                   hookHistoryVars>>

ClientInit ==
    /\ now = 0
    /\ circuitBreaker = CircuitBreakerInit
    /\ requestTimestamps = [c \in Clients |-> <<>>]
    /\ req = [s \in Slots |-> IdleReq]

HistoryInit ==
    /\ httpCalls = [c \in Clients |-> <<>>]
    /\ streak = 0
    /\ streakAt = 0
    /\ nonAuthFailures = 0
    /\ probes = 0
    /\ gateLog = NoGateLog

\* the configuration of the circuit-breaker specifications: client 2 is one
\* whose token is blank, the request budget is the default one
GateConfig ==
    [c \in Clients |->
        [apiToken |-> IF c = 1 THEN "token" ELSE "", rateLimitBuffer |-> 0]]

\* ------------------------------------------------------------------------
\* SpecGate: the circuit breaker under any callers and any responses
\* ------------------------------------------------------------------------
GateInit == ClientInit /\ HistoryInit /\ HookIdle /\ config = GateConfig

GateNext ==
    \/ \E s \in Slots, c \in Clients : Issue(s, c) /\ UNCHANGED historyVars
    \/ \E s \in Slots, resp \in Responses : Respond(s, resp) /\ UNCHANGED historyVars
    \/ Tick /\ UNCHANGED historyVars

SpecGate == GateInit /\ [][GateNext]_vars

\* ------------------------------------------------------------------------
\* SpecGateFailures: SpecGate, observing how the requests ended
\* ------------------------------------------------------------------------
NonAuthFailure(resp) == resp # "ok" /\ ~IsAuthError(ErrorOf(resp))

\* a failed request that is no authentication failure extends the streak,
\* a success or an authentication failure ends it
ObserveOutcome(resp) ==
    /\ streak' = IF ~NonAuthFailure(resp) THEN 0
                 ELSE IF streak < CIRCUIT_BREAKER_THRESHOLD THEN streak + 1
                 ELSE streak
    /\ streakAt' = IF NonAuthFailure(resp) THEN now ELSE streakAt
    /\ nonAuthFailures' =
          IF NonAuthFailure(resp) /\ nonAuthFailures < CIRCUIT_BREAKER_THRESHOLD
          THEN nonAuthFailures + 1 ELSE nonAuthFailures
    /\ UNCHANGED <<httpCalls, probes, gateLog>>

\* a call that throws at once for a blank token is an authentication failure
ObserveIssue(c) ==
    /\ streak' = IF IssueVerdict(c) = "HARDCOVER_AUTH_FAILED" THEN 0 ELSE streak
    /\ UNCHANGED <<httpCalls, streakAt, nonAuthFailures, probes, gateLog>>

GateFailuresNext ==
    \/ \E s \in Slots, c \in Clients : Issue(s, c) /\ ObserveIssue(c)
    \/ \E s \in Slots, resp \in Responses : Respond(s, resp) /\ ObserveOutcome(resp)
    \/ Tick /\ UNCHANGED historyVars

SpecGateFailures == GateInit /\ [][GateFailuresNext]_vars

\* C1: after 3 consecutive failed requests, none of them an authentication
\* failure and no success in between, the gate is OPEN, and a request issued
\* less than 60 s after the last of them is rejected with CIRCUIT_OPEN.
C1_ThreeFailuresOpenGate ==
    (streak >= CIRCUIT_BREAKER_THRESHOLD /\ now - streakAt < CIRCUIT_BREAKER_TIMEOUT)
        => /\ circuitBreaker.state = "OPEN"
           /\ \A c \in Clients : IssueVerdict(c) = "HARDCOVER_CIRCUIT_OPEN"

\* C3: authentication failures never count: the failure counter never exceeds
\* the number of failures that are no authentication failure, and with fewer
\* than 3 of those the gate is not OPEN.
C3_AuthFailuresNeverCount ==
    nonAuthFailures < CIRCUIT_BREAKER_THRESHOLD
        => /\ circuitBreaker.failureCount <= nonAuthFailures
           /\ circuitBreaker.state # "OPEN"

\* ------------------------------------------------------------------------
\* SpecGateProbes: SpecGate, observing the requests admitted for recovery
\* ------------------------------------------------------------------------
ObserveAdmission(c) ==
    /\ probes' =
          IF canMakeRequest(circuitBreaker, now).allowed
             /\ canMakeRequest(circuitBreaker, now).cb.state = "HALF_OPEN"
          THEN (IF circuitBreaker.state = "OPEN" THEN 1 ELSE probes + 1)
          ELSE probes
    /\ UNCHANGED <<httpCalls, streak, streakAt, nonAuthFailures, gateLog>>

GateProbesNext ==
    \/ \E s \in Slots, c \in Clients : Issue(s, c) /\ ObserveAdmission(c)
    \/ \E s \in Slots, resp \in Responses : Respond(s, resp) /\ UNCHANGED historyVars
    \/ Tick /\ UNCHANGED historyVars

SpecGateProbes == GateInit /\ [][GateProbesNext]_vars

\* C2: while the gate is HALF_OPEN, exactly one request has been admitted
\* since it left OPEN: the probe; every other one was rejected.
C2_SingleProbe == circuitBreaker.state = "HALF_OPEN" => probes = 1

\* ------------------------------------------------------------------------
\* SpecThrottle: the rate limiter of two clients with a small budget and a
\* remote that answers every request
\* ------------------------------------------------------------------------
ThrottleConfig ==
    [c \in Clients |-> [apiToken |-> "token", rateLimitBuffer |-> ThrottleBudget]]

ThrottleInit == ClientInit /\ HistoryInit /\ HookIdle /\ config = ThrottleConfig

ObserveFetch(c, t) ==
    /\ httpCalls' = [httpCalls EXCEPT ![c] = Append(@, t)]
    /\ UNCHANGED <<streak, streakAt, nonAuthFailures, probes, gateLog>>

ObserveTick ==
    /\ httpCalls' = [c \in Clients |-> FilterWindow(httpCalls[c], NextTime)]
    /\ UNCHANGED <<streak, streakAt, nonAuthFailures, probes, gateLog>>

ThrottleNext ==
    \/ \E s \in Slots, c \in Clients :
          /\ Issue(s, c)
          /\ IF IssueVerdict(c) = "http" THEN ObserveFetch(c, now)
             ELSE UNCHANGED historyVars
    \/ \E s \in Slots : Wake(s) /\ ObserveFetch(req[s].client, now)
    \/ \E s \in Slots : Respond(s, "ok") /\ UNCHANGED historyVars
    \/ Tick /\ ObserveTick

SpecThrottle == ThrottleInit /\ [][ThrottleNext]_vars

\* C4: the fetch calls a client made in the last 60 s never outnumber its
\* budget.
C4_BudgetPerWindow == \A c \in Clients : Len(httpCalls[c]) <= Buffer(c)

\* ------------------------------------------------------------------------
\* The per-book orchestrator: useHardcoverSync.ts.  One book is open, it is
\* linked (config.hardcoverId is set), the integration and progress sync
\* are enabled and an API token is configured.  The orchestrator's requests
\* stay below the throttle's budget of 50, so checkRateLimit never delays
\* them; the 5 s debounce timer and the 500 ms settle timers fire at any
\* moment after they were armed.
\* ------------------------------------------------------------------------
Strategies == {"prompt", "silent", "send", "receive"}
Frequencies == {"page", "chapter", "session"}
ReadIds == 1..MaxReadId
OpenPull == 1
PullIds == 1..(1 + MaxManualPulls)
PushIds == 1..MaxPushes

\* pageInfo.current + 1 after a page turn of the reader
LocalPages == {1, LocalTotal \div 2, LocalTotal - 2}
\* progress.sectionHref of a page
SectionOf(page) == IF page <= LocalTotal \div 2 THEN 1 ELSE 2

\* what getUserBook resolves to: null, or the user book with the page,
\* the start date and the id of its latest unfinished read (0: none) and
\* the page count of its edition (0: unknown)
NoUserBook ==
    [found |-> FALSE, readId |-> 0, page |-> 0, startedAt |-> 0,
     remoteTotalPages |-> 0]
RemoteTotals == {0, LocalTotal, 2 * LocalTotal}
RemotePages ==
    {0, LocalTotal \div 2, LocalTotal \div 2 + 2, LocalTotal - 2, LocalTotal + 1}
RemoteStamps == 0..2
UserBooks ==
    {NoUserBook}
    \cup [found : {TRUE}, readId : {0}, page : {0}, startedAt : {0},
          remoteTotalPages : RemoteTotals]
    \cup [found : {TRUE}, readId : ReadIds, page : RemotePages,
          startedAt : RemoteStamps, remoteTotalPages : RemoteTotals]

\* setConflictDetails(null)
NoConflict == [present |-> FALSE, remotePage |-> 0]
NoBookConfig == [hardcoverReadId |-> 0, hardcoverRemoteTotalPages |-> 0]
IdlePull == [pc |-> "idle", localPage |-> 0, bookConfig |-> NoBookConfig]
\* requests: the write requests the updateProgress call has sent
IdlePush ==
    [pc |-> "idle", bookConfig |-> NoBookConfig, awaited |-> FALSE,
     requests |-> 0]

Abs(x) == IF x < 0 THEN -x ELSE x
\* Math.round(a / b) for a >= 0 and b > 0
RoundDiv(a, b) == (2 * a + b) \div (2 * b)

\* the conflict threshold 0.05 is 1 / ConflictThresholdDen
ConflictThresholdDen == 20

\* the pagination the remote page is counted in
RemoteScale(ub) ==
    IF ~book.isFixedLayout /\ ub.remoteTotalPages # 0
                           /\ ub.remoteTotalPages # LocalTotal
    THEN ub.remoteTotalPages
    ELSE LocalTotal

\* remotePage: the remote page on the local pagination
RemotePageOf(ub) ==
    IF RemoteScale(ub) # LocalTotal
    THEN RoundDiv(ub.page * LocalTotal, RemoteScale(ub))
    ELSE ub.page

\* remoteIsNewer with >= in the place of >
RemoteIsNewer_Mut(ub) == ub.startedAt >= book.updatedAt
\* remoteIsNewer: remoteTimestamp > localTimestamp
RemoteIsNewer(ub) == ub.startedAt > book.updatedAt

\* percentageDiff > 0.1 in the place of percentageDiff > 0.05
DiffExceeds_Mut(ub, localPage) ==
    10 * Abs(ub.page * LocalTotal - localPage * RemoteScale(ub))
        > RemoteScale(ub) * LocalTotal
\* Math.abs(remotePercentage - localPercentage) > 0.05, in exact fractions
DiffExceeds(ub, localPage) ==
    ConflictThresholdDen * Abs(ub.page * LocalTotal - localPage * RemoteScale(ub))
        > RemoteScale(ub) * LocalTotal

\* the page the reader shows after applyRemoteProgress(page)
ApplyPage(page) ==
    IF page < 1 THEN 1 ELSE IF page > LocalTotal THEN LocalTotal ELSE page

\* what the callbacks of a render close over
Rendered(h) == [syncState |-> h.syncState, conflictDetails |-> h.conflictDetails]

\* what has changed since the last render
Dirty(h) ==
    IF h.phase = "closed" THEN {}
    ELSE h.dirty \cup (IF Rendered(h) # h.closure THEN {"state"} ELSE {})

FreePushes(h) == {p \in PushIds : h.pushes[p].pc = "idle"}
ActivePushes(h) == PushIds \ FreePushes(h)

\* the guards of pushProgressInternal without the one on the strategy
PushGuardsPass_Mut(h, cb, cl) ==
    /\ ~(cb.state = "OPEN" /\ now - cb.lastFailureTime < CIRCUIT_BREAKER_TIMEOUT)
    /\ ~h.isPulling
    /\ ~(cl.syncState = "conflict" \/ cl.conflictDetails.present)
    /\ h.progress # 0

\* the guards of pushProgressInternal; cl is the closure of the render
\* that created the function
PushGuardsPass(h, cb, cl) ==
    /\ ~(cb.state = "OPEN" /\ now - cb.lastFailureTime < CIRCUIT_BREAKER_TIMEOUT)
    /\ ~h.isPulling
    /\ ~(cl.syncState = "conflict" \/ cl.conflictDetails.present)
    /\ settings.strategy # "receive"
    /\ h.progress # 0

\* the push's failure branch: error state, disconnect notice on the
\* third failure
PushFailed(w) ==
    LET third == w.cb.failureCount = 3 /\ w.cb.state = "OPEN"
                                       /\ ~w.cb.hasNotifiedDisconnect
    IN  [h  |-> [w.h EXCEPT !.syncState = "error",
                            !.toast = IF w.cb.failureCount = 1 THEN "failed"
                                      ELSE IF third THEN "disabled"
                                      ELSE @],
         cb |-> IF third
                THEN markDisconnectNotified(w.cb)
                ELSE w.cb]

\* the push's branch for a link that the remote does not know
InvalidLink(w) ==
    [w EXCEPT !.h.hardcoverId = 0,
              !.h.bookConfig.hardcoverReadId = 0,
              !.h.dirty = @ \cup {"config"},
              !.h.needsMatching = TRUE,
              !.h.syncState = "error",
              !.h.toast = "invalidLink"]

\* pushProgressInternal up to its first await of the network
pushProgressInternal(w, cl, awaited) ==
    IF ~PushGuardsPass(w.h, w.cb, cl) \/ FreePushes(w.h) = {}
    THEN w
    ELSE LET p    == Min(FreePushes(w.h))
             gate == canMakeRequest(w.cb, now)
             task == [pc |-> IF w.h.bookConfig.hardcoverReadId # 0
                             THEN "update" ELSE "create",
                      bookConfig |-> w.h.bookConfig,
                      awaited |-> awaited,
                      requests |-> 1]
         IN  IF gate.allowed
             THEN [h |-> [w.h EXCEPT !.pushes[p] = task], cb |-> gate.cb]
             ELSE PushFailed([h |-> w.h, cb |-> gate.cb])

\* pushProgress.flush(): runs the pending call, if there is one
flush(w, cl) ==
    IF w.h.pending
    THEN pushProgressInternal([w EXCEPT !.h.pending = FALSE], cl, FALSE)
    ELSE w

\* the pushes of an action fit into the push slots of the model
Room(h, cb, cl) == PushGuardsPass(h, cb, cl) => FreePushes(h) # {}

\* pullProgress up to its first await of the network, without the return
\* under send
pullProgress_Mut(w, id) ==
    IF w.h.progress = 0 THEN w
    ELSE LET h1   == [w.h EXCEPT !.hasPulledOnce = TRUE, !.isPulling = TRUE]
             gate == canMakeRequest(w.cb, now)
         IN  IF gate.allowed
             THEN [h  |-> [h1 EXCEPT !.syncState = "checking",
                                     !.pulls[id] = [pc |-> "fetch",
                                                    localPage |-> w.h.progress,
                                                    bookConfig |-> w.h.bookConfig]],
                   cb |-> gate.cb]
             ELSE [h  |-> [h1 EXCEPT !.syncState = "synced", !.isPulling = FALSE],
                   cb |-> gate.cb]

\* pullProgress up to its first await of the network
pullProgress(w, id) ==
    IF w.h.progress = 0 THEN w
    ELSE LET h1   == [w.h EXCEPT !.hasPulledOnce = TRUE, !.isPulling = TRUE]
             gate == canMakeRequest(w.cb, now)
         IN  IF settings.strategy = "send"
             THEN [h  |-> [h1 EXCEPT !.syncState = "synced", !.isPulling = FALSE],
                   cb |-> w.cb]
             ELSE IF gate.allowed
             THEN [h  |-> [h1 EXCEPT !.syncState = "checking",
                                     !.pulls[id] = [pc |-> "fetch",
                                                    localPage |-> w.h.progress,
                                                    bookConfig |-> w.h.bookConfig]],
                   cb |-> gate.cb]
             ELSE \* getUserBook catches the rejection and resolves to null
                  [h  |-> [h1 EXCEPT !.syncState = "synced", !.isPulling = FALSE],
                   cb |-> gate.cb]

\* pullProgress after getUserBook has resolved to ub, with the comparison
\* of the percentages in front of the strategies
pullDecision_Mut(h, id, ub) ==
    LET t       == h.pulls[id]
        changed == /\ ub.found
                   /\ \/ ub.readId # t.bookConfig.hardcoverReadId
                      \/ ub.remoteTotalPages # t.bookConfig.hardcoverRemoteTotalPages
        h1      == IF changed
                   THEN [h EXCEPT !.bookConfig =
                                      [hardcoverReadId |-> ub.readId,
                                       hardcoverRemoteTotalPages |-> ub.remoteTotalPages],
                                  !.dirty = @ \cup {"config"}]
                   ELSE h
        target  == ApplyPage(RemotePageOf(ub))
    IN  IF ~ub.found \/ ub.page = 0
        THEN [h1 EXCEPT !.syncState = "synced", !.isPulling = FALSE,
                        !.pulls[id] = IdlePull]
        ELSE IF DiffExceeds(ub, t.localPage)
        THEN [h1 EXCEPT !.conflictDetails = [present |-> TRUE,
                                             remotePage |-> RemotePageOf(ub)],
                        !.syncState = "conflict",
                        !.pulls[id] = IdlePull]
        ELSE IF \/ settings.strategy = "receive"
                \/ settings.strategy = "silent" /\ RemoteIsNewer(ub)
        THEN [h1 EXCEPT !.progress = target,
                        !.dirty = IF target # h.progress
                                  THEN @ \cup {"progress"} ELSE @,
                        !.syncState = "synced",
                        !.pulls[id] = [IdlePull EXCEPT !.pc = "settle"]]
        ELSE [h1 EXCEPT !.syncState = "synced", !.isPulling = FALSE,
                        !.pulls[id] = IdlePull]

\* pullProgress after getUserBook has resolved to ub
pullDecision(h, id, ub) ==
    LET t       == h.pulls[id]
        changed == /\ ub.found
                   /\ \/ ub.readId # t.bookConfig.hardcoverReadId
                      \/ ub.remoteTotalPages # t.bookConfig.hardcoverRemoteTotalPages
        h1      == IF changed
                   THEN [h EXCEPT !.bookConfig =
                                      [hardcoverReadId |-> ub.readId,
                                       hardcoverRemoteTotalPages |-> ub.remoteTotalPages],
                                  !.dirty = @ \cup {"config"}]
                   ELSE h
        target  == ApplyPage(RemotePageOf(ub))
    IN  IF ~ub.found \/ ub.page = 0
        THEN [h1 EXCEPT !.syncState = "synced", !.isPulling = FALSE,
                        !.pulls[id] = IdlePull]
        ELSE IF \/ settings.strategy = "receive"
                \/ settings.strategy = "silent" /\ RemoteIsNewer(ub)
        THEN [h1 EXCEPT !.progress = target,
                        !.dirty = IF target # h.progress
                                  THEN @ \cup {"progress"} ELSE @,
                        !.syncState = "synced",
                        !.pulls[id] = [IdlePull EXCEPT !.pc = "settle"]]
        ELSE IF settings.strategy = "prompt" /\ DiffExceeds(ub, t.localPage)
        THEN [h1 EXCEPT !.conflictDetails = [present |-> TRUE,
                                             remotePage |-> RemotePageOf(ub)],
                        !.syncState = "conflict",
                        !.pulls[id] = IdlePull]
        ELSE [h1 EXCEPT !.syncState = "synced", !.isPulling = FALSE,
                        !.pulls[id] = IdlePull]

\* the auto-push effect of a render, without the return in session mode
autoPush_Mut(w, render) ==
    LET h == w.h IN
    IF \/ h.isPulling
       \/ render.syncState = "conflict" \/ render.conflictDetails.present
       \/ h.progress = 0
       \/ /\ settings.syncFrequency = "chapter"
          /\ SectionOf(h.progress) = h.lastSyncedSection
    THEN w
    ELSE [w EXCEPT !.h.lastSyncedSection =
                       IF settings.syncFrequency = "chapter"
                       THEN SectionOf(h.progress) ELSE @,
                   !.h.pending = (settings.strategy # "receive") \/ @]

\* the auto-push effect of a render
autoPush(w, render) ==
    LET h == w.h IN
    IF \/ h.isPulling
       \/ render.syncState = "conflict" \/ render.conflictDetails.present
       \/ h.progress = 0
       \/ settings.syncFrequency = "session"
       \/ /\ settings.syncFrequency = "chapter"
          /\ SectionOf(h.progress) = h.lastSyncedSection
    THEN w
    ELSE [w EXCEPT !.h.lastSyncedSection =
                       IF settings.syncFrequency = "chapter"
                       THEN SectionOf(h.progress) ELSE @,
                   !.h.pending = (settings.strategy # "receive") \/ @]

\* syncStatus(status)
syncStatus(w, status) ==
    IF w.h.hardcoverId = 0 \/ ~w.h.syncStatus THEN w
    ELSE [w EXCEPT !.h.statusSent = @ \cup {status}]

\* the effect that sets the status to CURRENTLY_READING, without the
\* look at hasSetCurrentlyReading
setCurrentlyReading_Mut(w) ==
    IF w.h.hardcoverId = 0 THEN w
    ELSE syncStatus([w EXCEPT !.h.hasSetCurrentlyReading = TRUE],
                    "CURRENTLY_READING")

\* the effect that sets the status to CURRENTLY_READING
setCurrentlyReading(w) ==
    IF w.h.hardcoverId = 0 \/ w.h.hasSetCurrentlyReading THEN w
    ELSE syncStatus([w EXCEPT !.h.hasSetCurrentlyReading = TRUE],
                    "CURRENTLY_READING")

\* the effect that sets the status to READ; lastPercentage holds the page
\* of the percentage
readStatus(w) ==
    IF w.h.progress = 0 \/ w.h.hardcoverId = 0 THEN w
    ELSE LET w1 == IF /\ w.h.progress >= LocalTotal
                      /\ w.h.lastPercentage < LocalTotal
                   THEN syncStatus(w, "READ") ELSE w
         IN  [w1 EXCEPT !.h.lastPercentage = w.h.progress]

\* one render of the hook: the cleanup of the listener effect flushes the
\* debounced push of the previous render, then the effects run in the
\* order of their definition
commit(w) ==
    LET d  == Dirty(w.h)
        r  == Rendered(w.h)
        w1 == flush(w, w.h.closure)
        w2 == [w1 EXCEPT !.h.closure = r, !.h.dirty = {}]
        w3 == IF /\ ~w2.h.hasPulledOnce
                 /\ d \cap {"progress", "config", "client", "settings"} # {}
              THEN pullProgress(w2, OpenPull) ELSE w2
        w4 == IF d \cap {"progress", "config", "state", "client", "settings"} # {}
              THEN autoPush(w3, r) ELSE w3
        w5 == IF d \cap {"config", "client", "settings"} # {}
              THEN setCurrentlyReading(w4) ELSE w4
    IN  IF d \cap {"progress", "config", "client", "settings"} # {}
        THEN readStatus(w5) ELSE w5

\* the hook at the start of a step: the toast and the status updates of
\* the step before are gone
World ==
    [h  |-> [hook EXCEPT !.toast = "none", !.statusSent = {}],
     cb |-> circuitBreaker]
Quiet == Dirty(hook) = {}

HookStep(w) ==
    /\ hook' = w.h
    /\ circuitBreaker' = w.cb
    /\ UNCHANGED <<now, config, requestTimestamps, req, settings, book, remote,
                   pageMap, cleanup, matching>>

\* ------------------------------------------------------------------------
\* The orchestrator's actions
\* ------------------------------------------------------------------------
\* the reader reports a new position
LocalProgress(p) ==
    /\ hook.phase = "reading" /\ Quiet
    /\ p # hook.progress
    /\ HookStep([World EXCEPT !.h.progress = p, !.h.dirty = @ \cup {"progress"}])

\* the component renders for a reason of its own
Rerender ==
    /\ hook.phase # "closed" /\ Quiet
    /\ hook.pending
    /\ HookStep([World EXCEPT !.h.dirty = @ \cup {"other"}])

Commit ==
    /\ ~Quiet
    /\ hook.pending => Room(hook, circuitBreaker, hook.closure)
    /\ HookStep(commit(World))

\* the debounce delay of pushProgress has passed
DebounceFires ==
    /\ hook.phase # "closed" /\ Quiet
    /\ hook.pending
    /\ Room(hook, circuitBreaker, hook.closure)
    /\ HookStep(flush(World, hook.closure))

\* 'push-hardcover'
handlePushProgress ==
    /\ hook.phase = "reading" /\ Quiet
    /\ Room(hook, circuitBreaker, hook.closure)
    /\ HookStep(flush([World EXCEPT !.h.pending = TRUE], hook.closure))

\* 'pull-hardcover'
handlePullProgress(id) ==
    /\ hook.phase = "reading" /\ Quiet
    /\ id # OpenPull
    /\ hook.pulls[id].pc = "idle"
    /\ \A j \in PullIds : (j # OpenPull /\ j < id) => hook.pulls[j].pc # "idle"
    /\ hook.progress # 0
    /\ HookStep(pullProgress(World, id))

\* getUserBook of pull id resolves
PullRespond(id, resp, ub) ==
    /\ Quiet
    /\ hook.pulls[id].pc = "fetch"
    /\ resp = "ok" \/ ub = NoUserBook
    /\ ub.found => ub.remoteTotalPages = remote.pages
    /\ HookStep([h  |-> pullDecision(World.h, id, ub),
                 cb |-> AfterResponse(circuitBreaker, resp, now)])

\* the settle timer of pull id without the reset of the pulling guard
Settle_Mut(id) ==
    /\ Quiet
    /\ hook.pulls[id].pc = "settle"
    /\ HookStep([World EXCEPT !.h.pulls[id] = IdlePull])

\* the settle timer of pull id
Settle(id) ==
    /\ Quiet
    /\ hook.pulls[id].pc = "settle"
    /\ HookStep([World EXCEPT !.h.isPulling = FALSE, !.h.pulls[id] = IdlePull])

UpdateOutcomes == {"updated", "error", "finished", "missing"}
CreateOutcomes == {"created", "error", "missing", "noUserBook"}

\* updateProgress falling back to a new read after every reported error,
\* that of a create request too
updateProgress_Mut(pc, out) ==
    LET attempt == IF out \in {"updated", "created"} THEN "success"
                   ELSE IF out \in {"error", "finished"} THEN "fallback"
                   ELSE IF pc = "create" /\ out = "noUserBook"
                   THEN "HARDCOVER_INVALID_USER_BOOK"
                   ELSE "failure"
    IN  IF attempt = "HARDCOVER_INVALID_USER_BOOK" THEN "failure" ELSE attempt

\* what updateProgress does with the answer out to its request pc: it
\* returns success or failure, or goes on to create a read; the error it
\* throws for an unknown user book is caught by its own try block
updateProgress(pc, out) ==
    LET attempt == IF out \in {"updated", "created"} THEN "success"
                   ELSE IF pc = "update" /\ out \in {"error", "finished"}
                   THEN "fallback"
                   ELSE IF pc = "create" /\ out = "noUserBook"
                   THEN "HARDCOVER_INVALID_USER_BOOK"
                   ELSE "failure"
    IN  IF attempt = "HARDCOVER_INVALID_USER_BOOK" THEN "failure" ELSE attempt

\* the request of push p resolves
PushRespond(p, resp, out, id) ==
    LET t   == hook.pushes[p]
        cb1 == AfterResponse(circuitBreaker, resp, now)
        h1  == [World.h EXCEPT !.pushes[p] = IdlePush,
                               !.forceCall = IF @ = [pc |-> "awaiting", push |-> p]
                                             THEN [pc |-> "resolved", push |-> 0]
                                             ELSE @]
        result == updateProgress(t.pc, out)
        ok  == [h  |-> [h1 EXCEPT !.bookConfig =
                                      [t.bookConfig EXCEPT !.hardcoverReadId = id],
                                  !.dirty = @ \cup {"config"},
                                  !.syncState = "synced",
                                  !.toast = IF checkAndClearRecoveryFlag(cb1).recovered
                                            THEN "restored" ELSE @],
                cb |-> checkAndClearRecoveryFlag(cb1).cb]
        gate == canMakeRequest(cb1, now)
    IN  /\ Quiet
        /\ t.pc \in {"update", "create"}
        /\ t.pc = "update" => out \in UpdateOutcomes /\ id = t.bookConfig.hardcoverReadId
        /\ t.pc = "create" => out \in CreateOutcomes
        /\ HookStep(
             IF resp # "ok" THEN PushFailed([h |-> h1, cb |-> cb1])
             ELSE IF result = "success" THEN ok
             ELSE IF result = "fallback"
             THEN IF gate.allowed
                  THEN [h |-> [World.h EXCEPT !.pushes[p].pc = "create",
                                              !.pushes[p].requests = @ + 1],
                        cb |-> gate.cb]
                  ELSE PushFailed([h |-> h1, cb |-> gate.cb])
             ELSE IF result = "HARDCOVER_INVALID_USER_BOOK"
             THEN InvalidLink([h |-> h1, cb |-> cb1])
             ELSE PushFailed([h |-> h1, cb |-> cb1]))

\* resolveWithLocal without the reset of the pulling guard
resolveWithLocal_Mut ==
    /\ hook.phase = "reading" /\ Quiet
    /\ hook.conflictDetails.present
    /\ LET w0 == [World EXCEPT !.h.pending = TRUE]
           w1 == flush(w0, hook.closure)
       IN  /\ Room(w0.h, w0.cb, hook.closure)
           /\ HookStep([w1 EXCEPT !.h.syncState = "synced",
                                  !.h.conflictDetails = NoConflict])

resolveWithLocal ==
    /\ hook.phase = "reading" /\ Quiet
    /\ hook.conflictDetails.present
    /\ LET w0 == [World EXCEPT !.h.isPulling = FALSE, !.h.pending = TRUE]
           w1 == flush(w0, hook.closure)
       IN  /\ Room(w0.h, w0.cb, hook.closure)
           /\ HookStep([w1 EXCEPT !.h.syncState = "synced",
                                  !.h.conflictDetails = NoConflict])

resolveWithRemote ==
    /\ hook.phase = "reading" /\ Quiet
    /\ hook.conflictDetails.present
    /\ ~hook.resolveTimer
    /\ LET target == ApplyPage(hook.conflictDetails.remotePage)
       IN  HookStep([World EXCEPT !.h.progress = target,
                                  !.h.dirty = IF target # hook.progress
                                              THEN @ \cup {"progress"} ELSE @,
                                  !.h.syncState = "synced",
                                  !.h.conflictDetails = NoConflict,
                                  !.h.resolveTimer = TRUE])

\* the settle timer of resolveWithRemote
ResolveSettle ==
    /\ Quiet
    /\ hook.resolveTimer
    /\ HookStep([World EXCEPT !.h.isPulling = FALSE, !.h.resolveTimer = FALSE])

\* handleFlush, the listener of 'flush-hardcover'
handleFlush(w) ==
    IF settings.syncFrequency = "session"
    THEN pushProgressInternal(w, w.h.closure, TRUE)
    ELSE flush(w, w.h.closure)

\* forceSync, which forceHardcoverSync(bookKey) calls and awaits;
\* pushProgressInternal has consumed the recovery flag and throws nothing,
\* so nothing is left to do after it
forceSync(w) ==
    IF w.cb.state = "OPEN" /\ now - w.cb.lastFailureTime < CIRCUIT_BREAKER_TIMEOUT
    THEN w
    ELSE IF settings.syncFrequency # "session"
    THEN flush(w, w.h.closure)
    ELSE pushProgressInternal(w, w.h.closure, TRUE)

\* forceHardcoverSync(bookKey) without the await of the forceSync it finds
forceHardcoverSync_Mut(w) ==
    [forceSync(w) EXCEPT !.h.forceCall = [pc |-> "resolved", push |-> 0]]

\* forceHardcoverSync(bookKey) of a registered hook: it awaits forceSync,
\* which returns at once or awaits the push it has started
forceHardcoverSync(w) ==
    LET w1      == forceSync(w)
        started == {p \in PushIds : /\ w.h.pushes[p].pc = "idle"
                                    /\ w1.h.pushes[p].pc # "idle"
                                    /\ w1.h.pushes[p].awaited}
    IN  [w1 EXCEPT !.h.forceCall =
                       IF started = {} THEN [pc |-> "resolved", push |-> 0]
                       ELSE [pc |-> "awaiting", push |-> Min(started)]]

\* the close path of the application dispatches 'flush-hardcover'
CloseFlush ==
    /\ hook.phase \in {"reading", "closing"} /\ Quiet
    /\ "flush" \notin hook.closeCalls
    /\ Room(hook, circuitBreaker, hook.closure)
    /\ HookStep(handleFlush([World EXCEPT !.h.phase = "closing",
                                          !.h.closeCalls = @ \cup {"flush"}]))

\* the close path of the application calls forceHardcoverSync(bookKey)
CloseForce ==
    /\ hook.phase \in {"reading", "closing"} /\ Quiet
    /\ "force" \notin hook.closeCalls
    /\ Room(hook, circuitBreaker, hook.closure)
    /\ HookStep(forceHardcoverSync([World EXCEPT !.h.phase = "closing",
                                                 !.h.closeCalls = @ \cup {"force"}]))

\* the close path has awaited the promises it was given and unmounts the
\* hook: the cleanup of the listener effect flushes the debounced push
Unmount ==
    /\ hook.phase = "closing" /\ Quiet
    /\ \A p \in ActivePushes(hook) : ~hook.pushes[p].awaited
    /\ Room(hook, circuitBreaker, hook.closure)
    /\ HookStep(flush([World EXCEPT !.h.phase = "closed"], hook.closure))

\* forceHardcoverSync(bookKey) after the unmount: the registry has no
\* forceSync for the book
ForceClosed ==
    /\ hook.phase = "closed" /\ Quiet
    /\ "forceClosed" \notin hook.closeCalls
    /\ HookStep([World EXCEPT !.h.closeCalls = @ \cup {"forceClosed"},
                              !.h.forceCall = [pc |-> "resolved", push |-> 0]])

\* a step nobody observes
NoHistory == UNCHANGED <<historyVars, hookHistoryVars>>

\* the hook of a book that has just been opened: the render after the
\* creation of the client is pending
NewHook ==
    [phase |-> "reading", progress |-> 0, bookConfig |-> NoBookConfig,
     syncState |-> "idle", conflictDetails |-> NoConflict,
     isPulling |-> FALSE, hasPulledOnce |-> FALSE,
     lastSyncedSection |-> 0, pending |-> FALSE,
     closure |-> [syncState |-> "idle", conflictDetails |-> NoConflict],
     dirty |-> {"client"}, pulls |-> [i \in PullIds |-> IdlePull],
     resolveTimer |-> FALSE, pushes |-> [p \in PushIds |-> IdlePush],
     closeCalls |-> {}, hardcoverId |-> 1, needsMatching |-> FALSE,
     toast |-> "none", syncStatus |-> TRUE,
     hasSetCurrentlyReading |-> FALSE, lastPercentage |-> 0,
     statusSent |-> {}, forceCall |-> [pc |-> "idle", push |-> 0]]

HookInit ==
    /\ settings \in [strategy : Strategies, syncFrequency : Frequencies]
    /\ book \in [isFixedLayout : BOOLEAN, updatedAt : {1}]
    /\ remote \in [pages : RemoteTotals]
    /\ hook = NewHook
    /\ pageMap = NoPageMap
    /\ cleanup = NoCleanup
    /\ matching = NoMatching
    /\ lastPull = [id |-> 0]
    /\ closeLog = NoCloseLog
    /\ statusLog = NoStatusLog
    /\ readLog = NoReadLog

SyncConfig == [c \in Clients |-> [apiToken |-> "token", rateLimitBuffer |-> 0]]

SyncInit ==
    /\ ClientInit /\ HistoryInit /\ HookInit /\ config = SyncConfig
    /\ ~book.isFixedLayout /\ remote.pages = 0

\* ------------------------------------------------------------------------
\* SpecSync: the open book against a remote that answers every request
\* ------------------------------------------------------------------------
\* the positions of the reader in SpecSync: one page in each section
SyncPages == {LocalTotal \div 2, LocalTotal - 2}

\* the answers of the remote in SpecSync: no user book, a user book
\* without an unfinished read, and unfinished reads at the reader's
\* positions, older and newer than the local position; the page count of
\* the remote edition is not known
SyncUserBooks ==
    {ub \in UserBooks : /\ ub.remoteTotalPages = 0
                        /\ ub.page \in {0} \cup SyncPages
                        /\ ub.startedAt \in {0, 2}}

SyncNext ==
    \/ \E p \in SyncPages : LocalProgress(p) /\ NoHistory
    \/ Rerender /\ NoHistory
    \/ Commit /\ NoHistory
    \/ DebounceFires /\ NoHistory
    \/ handlePushProgress /\ NoHistory
    \/ \E id \in PullIds : handlePullProgress(id) /\ NoHistory
    \/ \E id \in PullIds :
          /\ hook.pulls[id].pc = "fetch"
          /\ \E ub \in SyncUserBooks : PullRespond(id, "ok", ub) /\ NoHistory
    \/ \E id \in PullIds : Settle(id) /\ NoHistory
    \/ \E p \in ActivePushes(hook) :
          \E out \in UpdateOutcomes \cup CreateOutcomes, id \in ReadIds :
              PushRespond(p, "ok", out, id) /\ NoHistory
    \/ resolveWithLocal /\ NoHistory
    \/ resolveWithRemote /\ NoHistory
    \/ ResolveSettle /\ NoHistory

SpecSync == SyncInit /\ [][SyncNext]_vars

\* a push passes its guards and sends its write
PushStarted ==
    \E p \in PushIds : hook.pushes[p].pc = "idle" /\ hook'.pushes[p].pc # "idle"

\* the pull started on book open has not concluded, its settle delay
\* included
OpenPullActive == hook.pulls[OpenPull].pc \in {"fetch", "settle"}

\* C5: from the start of the pull on book open until it has concluded,
\* the settle delay after applying the remote position included, no push
\* sends a progress write.
C5_NoWriteDuringOpenPull == [][OpenPullActive => ~PushStarted]_vars

\* C6: at most one progress write is outstanding at a time.
C6_OneOutstandingWrite == Cardinality(ActivePushes(hook)) <= 1

\* C7: while a conflict record exists, no push passes its guards and sends
\* a progress write.
C7_NoWriteDuringConflict == [][hook.conflictDetails.present => ~PushStarted]_vars

\* ------------------------------------------------------------------------
\* SpecClose: SpecSync in session mode, with the close path of the
\* application, observing the pushes the close path starts
\* ------------------------------------------------------------------------
CloseInit == SyncInit /\ settings.syncFrequency = "session"

\* nothing keeps a push from passing its guards when the close begins
QuietAtClose ==
    /\ hook.progress # 0
    /\ ~hook.isPulling /\ ~hook.resolveTimer
    /\ ~hook.conflictDetails.present /\ hook.syncState # "conflict"
    /\ settings.strategy # "receive"
    /\ circuitBreaker.state = "CLOSED"
    /\ ActivePushes(hook) = {}
    /\ \A id \in PullIds : hook.pulls[id].pc = "idle"

\* the pushes this step has started
StartedPushes ==
    {p \in PushIds : hook.pushes[p].pc = "idle" /\ hook'.pushes[p].pc # "idle"}

ObserveClose ==
    /\ closeLog' = [quiet  |-> IF hook.phase = "reading" THEN QuietAtClose
                               ELSE closeLog.quiet,
                    writes |-> closeLog.writes + (IF PushStarted THEN 1 ELSE 0),
                    failed |-> closeLog.failed,
                    forced |-> IF "force" \in hook'.closeCalls \ hook.closeCalls
                               THEN StartedPushes ELSE closeLog.forced,
                    forceWrote |-> \/ closeLog.forceWrote
                                   \/ /\ "force" \in hook'.closeCalls \ hook.closeCalls
                                      /\ StartedPushes # {}]
    /\ UNCHANGED <<historyVars, lastPull, statusLog, readLog>>

\* a push of the close path has failed
ObservePush ==
    /\ closeLog' = [closeLog EXCEPT
                        !.failed = @ \/ (hook.phase # "reading"
                                            /\ hook'.syncState = "error"),
                        !.forced = {p \in @ : hook'.pushes[p].pc # "idle"}]
    /\ UNCHANGED <<historyVars, lastPull, statusLog, readLog>>

CloseNext ==
    \/ \E p \in SyncPages : LocalProgress(p) /\ NoHistory
    \/ Commit /\ NoHistory
    \/ handlePushProgress /\ NoHistory
    \/ \E id \in PullIds : handlePullProgress(id) /\ NoHistory
    \/ \E id \in PullIds :
          /\ hook.pulls[id].pc = "fetch"
          /\ \E ub \in SyncUserBooks : PullRespond(id, "ok", ub) /\ NoHistory
    \/ \E id \in PullIds : Settle(id) /\ NoHistory
    \/ \E p \in ActivePushes(hook) :
          \E out \in UpdateOutcomes \cup CreateOutcomes, id \in ReadIds :
              PushRespond(p, "ok", out, id) /\ ObservePush
    \/ resolveWithLocal /\ NoHistory
    \/ resolveWithRemote /\ NoHistory
    \/ ResolveSettle /\ NoHistory
    \/ CloseFlush /\ ObserveClose
    \/ CloseForce /\ ObserveClose
    \/ Unmount /\ ObserveClose

SpecClose == CloseInit /\ [][CloseNext]_vars

\* C8: when a book in session mode has been closed, nothing kept a push
\* from passing its guards when the close began and no push of the close
\* path failed, the close path has started exactly one progress write.
C8_OneWritePerClose ==
    (hook.phase = "closed" /\ closeLog.quiet /\ ~closeLog.failed)
        => closeLog.writes = 1

\* ------------------------------------------------------------------------
\* SpecPull: the pulls of an open book in session mode under the
\* strategies that compare, one after another, with every answer of the
\* remote, observing what each pull compared and what it decided
\* ------------------------------------------------------------------------
PullInit ==
    /\ ClientInit /\ HistoryInit /\ HookInit /\ config = SyncConfig
    /\ settings.syncFrequency = "session"
    /\ settings.strategy \in {"prompt", "silent"}

\* the pull that has just concluded: its answer, the local page it compared
\* with, and the position and the conflict record it found
ObservePull(id, ub) ==
    /\ lastPull' = [id |-> id,
                    ub |-> [page |-> ub.page, startedAt |-> ub.startedAt,
                            remoteTotalPages |-> ub.remoteTotalPages],
                    localPage |-> hook.pulls[id].localPage,
                    progress |-> hook.progress,
                    conflictDetails |-> hook.conflictDetails]
    /\ UNCHANGED <<historyVars, closeLog, statusLog, readLog>>

ForgetPull ==
    /\ lastPull' = [id |-> 0]
    /\ UNCHANGED <<historyVars, closeLog, statusLog, readLog>>

PullNext ==
    \/ \E p \in LocalPages : LocalProgress(p) /\ ForgetPull
    \/ Commit /\ ForgetPull
    \/ \E id \in PullIds :
          /\ \A j \in PullIds : hook.pulls[j].pc # "fetch"
          /\ handlePullProgress(id) /\ ForgetPull
    \/ \E id \in PullIds :
          /\ hook.pulls[id].pc = "fetch"
          /\ \E ub \in UserBooks : PullRespond(id, "ok", ub) /\ ObservePull(id, ub)
    \/ \E id \in PullIds : Settle(id) /\ ForgetPull
    \/ resolveWithLocal /\ ForgetPull
    \/ resolveWithRemote /\ ForgetPull
    \/ ResolveSettle /\ ForgetPull

SpecPull == PullInit /\ [][PullNext]_vars

\* a pull has just concluded that found an unfinished read with a page
FoundRemoteProgress == lastPull.id # 0 /\ lastPull.ub.page # 0

\* the pagination the claim's remote percentage is taken in
ClaimScale ==
    IF ~book.isFixedLayout /\ lastPull.ub.remoteTotalPages \notin {0, LocalTotal}
    THEN lastPull.ub.remoteTotalPages
    ELSE LocalTotal

\* |remotePercentage - localPercentage| > 0.05 = 1/20
ClaimDiverged ==
    20 * Abs(lastPull.ub.page * LocalTotal - lastPull.localPage * ClaimScale)
        > ClaimScale * LocalTotal

C10_SilentAppliesIffNewer ==
    (FoundRemoteProgress /\ settings.strategy = "silent") =>
        /\ hook.syncState = "synced"
        /\ hook.conflictDetails = lastPull.conflictDetails
        /\ IF lastPull.ub.startedAt > book.updatedAt
           THEN /\ hook.progress = ApplyPage(RemotePageOf(lastPull.ub))
                /\ hook.pulls[lastPull.id].pc = "settle"
           ELSE /\ hook.progress = lastPull.progress
                /\ hook.pulls[lastPull.id].pc = "idle"

C10_Witness ==
    /\ FoundRemoteProgress /\ settings.strategy = "silent"
    /\ lastPull.ub.startedAt > book.updatedAt
    /\ hook.progress # lastPull.progress
    /\ hook.progress = ApplyPage(RemotePageOf(lastPull.ub))

\* ------------------------------------------------------------------------
\* The strategies that never compare: send and receive
\* ------------------------------------------------------------------------
\* SpecPlain: SpecSync under send and receive with the close path of the
\* application, observing what each call of pullProgress found.  The resolutions of the conflict dialog are not
\* among its steps: each of them needs a conflict record to act on.
\* a 'pull-hardcover' event has called pullProgress
ObserveStart(id) ==
    /\ lastPull' = [id |-> id, before |-> hook, cb |-> circuitBreaker]
    /\ UNCHANGED <<historyVars, closeLog, statusLog, readLog>>

\* a render whose pull-once effect has called pullProgress
ObserveCommit ==
    /\ lastPull' = IF ~hook.hasPulledOnce /\ hook'.hasPulledOnce
                   THEN [id |-> OpenPull, before |-> hook, cb |-> circuitBreaker]
                   ELSE [id |-> 0]
    /\ UNCHANGED <<historyVars, closeLog, statusLog, readLog>>

PlainInit == SyncInit /\ settings.strategy \in {"send", "receive"}

PlainNext ==
    \/ \E p \in SyncPages : LocalProgress(p) /\ ForgetPull
    \/ Rerender /\ ForgetPull
    \/ Commit /\ ObserveCommit
    \/ DebounceFires /\ ForgetPull
    \/ handlePushProgress /\ ForgetPull
    \/ \E id \in PullIds : handlePullProgress(id) /\ ObserveStart(id)
    \/ \E id \in PullIds :
          /\ hook.pulls[id].pc = "fetch"
          /\ \E ub \in SyncUserBooks : PullRespond(id, "ok", ub) /\ ForgetPull
    \/ \E id \in PullIds : Settle(id) /\ ForgetPull
    \/ \E p \in ActivePushes(hook) :
          \E out \in UpdateOutcomes \cup CreateOutcomes, id \in ReadIds :
              PushRespond(p, "ok", out, id) /\ ForgetPull
    \/ CloseFlush /\ ForgetPull
    \/ CloseForce /\ ForgetPull
    \/ Unmount /\ ForgetPull

SpecPlain == PlainInit /\ [][PlainNext]_vars

\* C11: under the strategies send and receive no conflict record exists and
\* the sync state is never conflict, whatever the pulls, the pushes and the
\* position reports.
C11_NoConflictUnderSendReceive ==
    settings.strategy \in {"send", "receive"} =>
        ~hook.conflictDetails.present /\ hook.syncState # "conflict"

\* a pull under receive has just moved the reader to a remote position that
\* is not the local one
C11_Witness ==
    /\ settings.strategy = "receive"
    /\ \E id \in PullIds : hook.pulls[id].pc = "settle"
    /\ "progress" \in hook.dirty
    /\ ~hook.conflictDetails.present /\ hook.syncState = "synced"

\* pullProgress has just been called
PullCalled == lastPull.id # 0

\* C12: under send a call of pullProgress, from the pull-once effect or
\* from a 'pull-hardcover' event, asks the remote nothing, leaves the
\* reading position and the stored linkage as they were, and ends in state
\* synced with the pulling guard cleared.
C12_SendPullIsLocal ==
    (PullCalled /\ settings.strategy = "send") =>
        /\ hook.pulls = lastPull.before.pulls
        /\ circuitBreaker = lastPull.cb
        /\ hook.progress = lastPull.before.progress
        /\ hook.bookConfig = lastPull.before.bookConfig
        /\ hook.syncState = "synced"
        /\ ~hook.isPulling

\* a 'pull-hardcover' event under send after a failed push
C12_Witness ==
    /\ PullCalled /\ settings.strategy = "send"
    /\ lastPull.id # OpenPull
    /\ lastPull.before.syncState = "error"
    /\ lastPull.before.bookConfig.hardcoverReadId # 0
    /\ hook.syncState = "synced"

\* C13: under receive no push path (auto-push, 'push-hardcover',
\* 'flush-hardcover', forceSync, the flush of a cleanup) has a progress
\* write outstanding.
C13_ReceiveNeverWrites ==
    settings.strategy = "receive" => ActivePushes(hook) = {}

\* under receive, with a position and no pull in the way, the book has
\* been closed through both the flush event and forceSync
C13_Witness ==
    /\ settings.strategy = "receive"
    /\ hook.phase = "closed" /\ hook.closeCalls = {"flush", "force"}
    /\ hook.progress # 0 /\ ~hook.isPulling
    /\ ActivePushes(hook) = {}

\* ------------------------------------------------------------------------
\* SpecMap: the page mapping of a reflowable book, from the local
\* pagination to the remote one in a push and back in a pull
\* ------------------------------------------------------------------------
Totals == 1..MaxTotal

RECURSIVE Gcd(_, _)
Gcd(a, b) == IF b = 0 THEN a ELSE Gcd(b, a % b)

\* a / b is a binary fraction, which floating point holds exactly
Dyadic(a, b) == \E k \in 0..b : 2 ^ k = b \div Gcd(a, b)

\* Math.round((a / b) * c) for a >= 0, b > 0 and c > 0, computed in
\* floating point: the nearest integer; at a tie the next integer above,
\* and also the one below when a / b is rounded, because the product may
\* then fall below the tie
Rounds(a, b, c) ==
    IF (2 * a * c) % (2 * b) = b /\ ~Dyadic(a, b)
    THEN {RoundDiv(a * c, b) - 1, RoundDiv(a * c, b)}
    ELSE {RoundDiv(a * c, b)}

\* pageToSend of a reflowable book
pageToSend(localPage, localTotalPages, remoteTotal) ==
    IF remoteTotal # 0 /\ remoteTotal # localTotalPages
    THEN Rounds(localPage, localTotalPages, remoteTotal)
    ELSE {localPage}

\* remotePage of a reflowable book, with Math.floor in the place of
\* Math.round
remotePage_Mut(remotePageRaw, remoteTotal, localTotalPages) ==
    IF remoteTotal # 0 /\ remoteTotal # localTotalPages
    THEN {(remotePageRaw * localTotalPages) \div remoteTotal}
    ELSE {remotePageRaw}

\* remotePage of a reflowable book
remotePage(remotePageRaw, remoteTotal, localTotalPages) ==
    IF remoteTotal # 0 /\ remoteTotal # localTotalPages
    THEN Rounds(remotePageRaw, remoteTotal, localTotalPages)
    ELSE {remotePageRaw}

MapStep ==
    UNCHANGED <<clientVars, historyVars, hookHistoryVars, settings, book,
                remote, hook, cleanup, matching>>

\* a push converts the local page
MapPush ==
    /\ pageMap.pc = "local"
    /\ \E q \in pageToSend(pageMap.localPage, pageMap.localTotalPages,
                            pageMap.remoteTotal) :
          pageMap' = [pageMap EXCEPT !.pc = "remote", !.sent = q]
    /\ MapStep

\* a pull converts the page the push has sent
MapPull ==
    /\ pageMap.pc = "remote"
    /\ \E r \in remotePage(pageMap.sent, pageMap.remoteTotal,
                            pageMap.localTotalPages) :
          pageMap' = [pageMap EXCEPT !.pc = "back", !.back = r]
    /\ MapStep

MapInit ==
    /\ ClientInit /\ HistoryInit /\ config = SyncConfig
    /\ settings = [strategy |-> "prompt", syncFrequency |-> "page"]
    /\ book = [isFixedLayout |-> FALSE, updatedAt |-> 0]
    /\ \E L \in Totals :
          \E R \in Totals \ {L}, p \in 1..L :
              /\ remote = [pages |-> R]
              /\ pageMap = [pc |-> "local", localPage |-> p, localTotalPages |-> L,
                            remoteTotal |-> R, sent |-> 0, back |-> 0]
    /\ hook = [phase |-> "closed"]
    /\ cleanup = NoCleanup
    /\ matching = NoMatching
    /\ lastPull = [id |-> 0]
    /\ closeLog = NoCloseLog
    /\ statusLog = NoStatusLog
    /\ readLog = NoReadLog

MapNext == MapPush \/ MapPull

SpecMap == MapInit /\ [][MapNext]_vars

\* the page has gone to the remote pagination and back
MappedBack == pageMap.pc = "back"

\* C14 as stated: with totals L and R, R known and different from L, every
\* local page comes back within 1 of itself.
C14_RoundTripWithinOne ==
    MappedBack => Abs(pageMap.back - pageMap.localPage) <= 1

\* C14 amended: the same for totals with L <= 3 * R.
C14_RoundTripWithinOneIfFine ==
    (MappedBack /\ pageMap.localTotalPages <= 3 * pageMap.remoteTotal) =>
        Abs(pageMap.back - pageMap.localPage) <= 1

\* a page of a book with more local than remote pages comes back as its
\* neighbour
C14_Witness ==
    /\ MappedBack
    /\ pageMap.remoteTotal < pageMap.localTotalPages
    /\ pageMap.localTotalPages <= 3 * pageMap.remoteTotal
    /\ Abs(pageMap.back - pageMap.localPage) = 1

\* ------------------------------------------------------------------------
\* The answers of the remote to a progress write
\* ------------------------------------------------------------------------
\* the create request of a push is answered "Couldn't find UserBook"
InvalidLinkReported ==
    \E p \in ActivePushes(hook), id \in ReadIds :
        /\ hook.pushes[p].pc = "create"
        /\ PushRespond(p, "ok", "noUserBook", id)

\* C15: when the remote answers a create request with "Couldn't find
\* UserBook", the push clears the stored link id and read id, sets
\* needs-matching and emits the invalid-link notification.
C15_InvalidLinkIsCleared ==
    [][InvalidLinkReported =>
          /\ hook'.hardcoverId = 0
          /\ hook'.bookConfig.hardcoverReadId = 0
          /\ hook'.needsMatching
          /\ hook'.toast = "invalidLink"]_vars

\* ------------------------------------------------------------------------
\* SpecFail: pushes requested one after another in session mode under send,
\* against a remote that answers, fails or is not reached, while time
\* passes; observing the pushes that failed in a row
\* ------------------------------------------------------------------------
FailInit ==
    /\ SyncInit
    /\ settings = [strategy |-> "send", syncFrequency |-> "session"]

\* an answer, a transport failure, a server error
FailResponses == {"ok", "fetchThrows", "http5xx"}

\* a push has ended in its failure branch
PushFails ==
    /\ hook'.syncState = "error"
    /\ \/ \E p \in PushIds :
             hook.pushes[p].pc # "idle" /\ hook'.pushes[p].pc = "idle"
       \/ hook'.pushes = hook.pushes /\ circuitBreaker.state # "OPEN"

\* a push has ended in its success branch
PushSucceeds ==
    /\ hook'.syncState = "synced"
    /\ \E p \in PushIds :
          hook.pushes[p].pc # "idle" /\ hook'.pushes[p].pc = "idle"

\* the failed pushes in a row since the gate was last seen healthy
ObserveRun ==
    /\ streak' = IF PushSucceeds THEN 0
                 ELSE IF PushFails /\ streak <= CIRCUIT_BREAKER_THRESHOLD
                 THEN streak + 1
                 ELSE streak
    /\ UNCHANGED <<httpCalls, streakAt, nonAuthFailures, probes, gateLog,
                   hookHistoryVars>>

FailNext ==
    \/ \E p \in SyncPages : LocalProgress(p) /\ NoHistory
    \/ Commit /\ NoHistory
    \/ /\ ActivePushes(hook) = {}
       /\ handlePushProgress /\ ObserveRun
    \/ \E p \in ActivePushes(hook) :
          \E resp \in FailResponses, out \in UpdateOutcomes \cup CreateOutcomes,
             id \in ReadIds :
              PushRespond(p, resp, out, id) /\ ObserveRun
    \/ Tick /\ NoHistory

SpecFail == FailInit /\ [][FailNext]_vars

\* C16: an updateProgress call made with a stored read id has sent one
\* request while it updates and two once it creates; it goes on to create
\* only when the update was answered with an error or a finished read, and
\* the answer to its create request ends it.
C16_AtMostOneFallback ==
    [][\A p \in PushIds :
          LET t  == hook.pushes[p]
              t2 == hook'.pushes[p]
          IN  t2.pc # "idle" /\ t2.bookConfig.hardcoverReadId # 0 =>
                /\ t2.requests = IF t2.pc = "update" THEN 1 ELSE 2
                /\ t.pc = "update" /\ t2.pc = "create" =>
                      \E id \in ReadIds :
                          \/ PushRespond(p, "ok", "error", id)
                          \/ PushRespond(p, "ok", "finished", id)
                /\ t.pc # "create" \/ t2 = t]_vars

\* a call with a stored read id has sent its second request
C16_Witness ==
    \E p \in PushIds :
        /\ hook.pushes[p].pc = "create"
        /\ hook.pushes[p].bookConfig.hardcoverReadId # 0
        /\ hook.pushes[p].requests = 2

\* a step of a push: a 'push-hardcover' event or the answer to a request
PushStep ==
    \/ handlePushProgress
    \/ \E p \in ActivePushes(hook) :
          \E resp \in FailResponses, out \in UpdateOutcomes \cup CreateOutcomes,
             id \in ReadIds :
              PushRespond(p, resp, out, id)

\* the notification of the n-th failed push in a row
ToastOfFailure(n) ==
    IF n = 1 THEN "failed"
    ELSE IF n = CIRCUIT_BREAKER_THRESHOLD THEN "disabled"
    ELSE "none"

\* C17: of the pushes that fail in a row from a healthy gate, the first
\* emits the failure notification, the second none, the third the
\* notification that sync is disabled and opens the gate, and a push
\* attempted after that emits none.
C17_FailureNotifications ==
    [][PushStep =>
          /\ PushFails =>
                /\ hook'.toast = ToastOfFailure(streak')
                /\ streak' = CIRCUIT_BREAKER_THRESHOLD =>
                      circuitBreaker'.state = "OPEN"
          /\ circuitBreaker.state = "OPEN" => hook'.toast = "none"]_vars

\* ------------------------------------------------------------------------
\* SpecAuto: the open book under every strategy and frequency, with the
\* pull on book open, the position reports, the pushes they schedule and
\* the conflict dialog
\* ------------------------------------------------------------------------
AutoNext ==
    \/ \E p \in SyncPages : LocalProgress(p) /\ NoHistory
    \/ Commit /\ NoHistory
    \/ DebounceFires /\ NoHistory
    \/ /\ hook.pulls[OpenPull].pc = "fetch"
       /\ \E ub \in SyncUserBooks : PullRespond(OpenPull, "ok", ub) /\ NoHistory
    \/ Settle(OpenPull) /\ NoHistory
    \/ \E p \in ActivePushes(hook) :
          \E out \in UpdateOutcomes \cup CreateOutcomes, id \in ReadIds :
              PushRespond(p, "ok", out, id) /\ NoHistory
    \/ resolveWithLocal /\ NoHistory
    \/ resolveWithRemote /\ NoHistory
    \/ ResolveSettle /\ NoHistory

SpecAuto == SyncInit /\ [][AutoNext]_vars

\* a render after the reader has reported a new position
ProgressRendered == "progress" \in hook.dirty /\ hook'.dirty = {}

\* no pull awaits the remote or its settle delay, and no conflict is open
NoPullNoConflict ==
    /\ \A id \in PullIds : hook'.pulls[id].pc = "idle"
    /\ ~hook'.resolveTimer
    /\ ~hook.conflictDetails.present /\ hook.syncState # "conflict"

\* the auto-push effect has scheduled the debounced push as the frequency
\* asks
ScheduledByFrequency ==
    CASE settings.syncFrequency = "page" -> hook'.pending
      [] settings.syncFrequency = "chapter" ->
            hook'.pending <=> SectionOf(hook'.progress) # hook.lastSyncedSection
      [] settings.syncFrequency = "session" -> ~hook'.pending

\* C18 as stated: with no pull in flight and no open conflict, a position
\* report schedules the debounced push always in page mode, in chapter
\* mode if and only if the section is not the one recorded, never in
\* session mode.
C18_ScheduledByFrequency ==
    [][(ProgressRendered /\ NoPullNoConflict) => ScheduledByFrequency]_vars

\* C18 amended: the same under the strategies that push (prompt, silent
\* and send).
C18_ScheduledByFrequencyIfPushing ==
    [][(ProgressRendered /\ NoPullNoConflict /\ settings.strategy # "receive")
          => ScheduledByFrequency]_vars

\* in chapter mode a push is scheduled for a section that is not the one
\* recorded at the push before
C18_Witness ==
    /\ settings.syncFrequency = "chapter" /\ settings.strategy = "prompt"
    /\ hook.pending /\ hook.dirty = {}
    /\ hook.lastSyncedSection = 2 /\ hook.bookConfig.hardcoverReadId # 0
    /\ \A id \in PullIds : hook.pulls[id].pc = "idle"

\* ---------------------------------------------------------------------
\* The status updates: the reader pages to the end of the book and back,
\* pushes change the book's config, and the status sync setting is
\* switched off and on, which renews the client.
\* ---------------------------------------------------------------------

\* the positions of the reader: before the end, and the end of the book
StatusPages == {LocalTotal - 2, LocalTotal}

\* the user switches settings.hardcover.syncStatus; the settings effect
\* makes a new client from the new settings
ToggleStatusSync ==
    /\ hook.phase = "reading" /\ Quiet
    /\ HookStep([World EXCEPT !.h.syncStatus = ~@,
                              !.h.dirty = @ \cup {"settings", "client"}])

\* history: the status updates sent so far (counted up to two), whether a
\* rendered progress has reached the end of the book, and whether status
\* sync was on at every render so far
ObserveStatus ==
    LET rendered == hook.dirty # {} /\ hook'.dirty = {}
        more(n, status) ==
            IF status \in hook'.statusSent /\ n < 2 THEN n + 1 ELSE n
    IN  /\ statusLog' =
              [read             |-> more(statusLog.read, "READ"),
               currentlyReading |-> more(statusLog.currentlyReading,
                                         "CURRENTLY_READING"),
               reached          |-> \/ statusLog.reached
                                    \/ rendered /\ hook'.progress = LocalTotal,
               enabledAll       |-> /\ statusLog.enabledAll
                                    /\ rendered => hook.syncStatus]
        /\ UNCHANGED <<historyVars, lastPull, closeLog, readLog>>

StatusInit ==
    SyncInit /\ settings = [strategy |-> "send", syncFrequency |-> "page"]

StatusNext ==
    \/ \E p \in StatusPages : LocalProgress(p) /\ ObserveStatus
    \/ Commit /\ ObserveStatus
    \/ DebounceFires /\ ObserveStatus
    \/ \E p \in ActivePushes(hook) :
          \E out \in UpdateOutcomes \cup CreateOutcomes, id \in ReadIds :
              PushRespond(p, "ok", out, id) /\ ObserveStatus
    \/ ToggleStatusSync /\ ObserveStatus

SpecStatus == StatusInit /\ [][StatusNext]_vars

\* C19: with status sync on from the start, the render of a local progress
\* change sends READ exactly when the progress is at the end of the book
\* and no rendered progress was there before
C19_ReadSentOnce ==
    [][(ProgressRendered /\ statusLog.enabledAll /\ hook.syncStatus)
          => ("READ" \in hook'.statusSent
                 <=> hook'.progress = LocalTotal /\ ~statusLog.reached)]_vars

Null == -1

ProgressValues == {Null} \cup (0 .. MaxProgress)

\* the lists the remote answers with: order_by id asc
ReadLists ==
    UNION {{r \in [1 .. n -> [id : 1 .. MaxReads + 1,
                              progress_pages : ProgressValues]] :
               \A i \in 1 .. n - 1 : r[i].id < r[i + 1].id} : n \in 0 .. MaxReads}

\* progress_pages || 0
OrZero(x) == IF x = Null THEN 0 ELSE x

RECURSIVE bestRead_Mut(_, _, _)
\* the loop over the reads, taking a later read of equal progress too
bestRead_Mut(reads, i, best) ==
    IF i > Len(reads) THEN best
    ELSE bestRead_Mut(reads, i + 1,
                      IF OrZero(reads[i].progress_pages)
                            >= OrZero(reads[best].progress_pages)
                      THEN i ELSE best)

RECURSIVE bestRead(_, _, _)
\* the loop over the reads that finds the one with the highest progress:
\* the index of bestRead after the reads from i on
bestRead(reads, i, best) ==
    IF i > Len(reads) THEN best
    ELSE bestRead(reads, i + 1,
                  IF OrZero(reads[i].progress_pages)
                        > OrZero(reads[best].progress_pages)
                  THEN i ELSE best)

\* the deletion loop from read c.i on: up to its next deleteRead, or to
\* the return
deleteOthers(c) ==
    LET rest == {j \in c.i .. Len(c.reads) : c.reads[j].id # c.reads[c.bestRead].id}
    IN  IF rest = {}
        THEN [c EXCEPT !.pc = "done",
                       !.result = [deleted |-> c.deleted,
                                   kept |-> c.reads[c.bestRead].id]]
        ELSE [c EXCEPT !.i = Min(rest),
                       !.requested = @ \cup {c.reads[Min(rest)].id}]

\* the answers to the requests of a cleanup
CleanupResponses == {"ok", "fetchThrows", "http5xx"}

\* graphqlRequest of the cleanup's client, from the gate to the classified
\* response resp: whether it returned, whether it was sent, the breaker
graphqlRequest(cb, resp) ==
    LET gate == canMakeRequest(cb, now)
    IN  IF ~gate.allowed
        THEN [returned |-> FALSE, sent |-> FALSE, cb |-> gate.cb]
        ELSE [returned |-> resp = "ok", sent |-> TRUE,
              cb |-> AfterResponse(gate.cb, resp, now)]

\* one request of the cleanup has ended as r
CleanupStep(r) ==
    /\ circuitBreaker' = r.cb
    /\ requestTimestamps' =
          IF r.sent THEN [requestTimestamps EXCEPT ![1] = Append(@, now)]
          ELSE requestTimestamps
    /\ UNCHANGED <<now, config, req, historyVars, hookHistoryVars, settings, book,
                   remote, hook, pageMap, matching>>

\* getAllReads returns: the reads of the user book, or none when its
\* request failed
getAllReads(resp) ==
    /\ cleanup.pc = "reads"
    /\ LET r     == graphqlRequest(circuitBreaker, resp)
           reads == IF r.returned THEN cleanup.remote ELSE <<>>
           c     == [cleanup EXCEPT !.fetched = r.returned, !.reads = reads]
       IN  /\ cleanup' =
                 IF Len(reads) <= 1
                 THEN [c EXCEPT !.pc = "done", !.result = [deleted |-> 0, kept |-> 0]]
                 ELSE deleteOthers([c EXCEPT !.pc = "delete", !.i = 1,
                                             !.bestRead = bestRead(reads, 1, 1)])
           /\ CleanupStep(r)

\* deleteRead returns, every request counted as a deletion
deleteRead_Mut(resp) ==
    /\ cleanup.pc = "delete"
    /\ LET r == graphqlRequest(circuitBreaker, resp)
       IN  /\ cleanup' = deleteOthers([cleanup EXCEPT
                              !.deleted = @ + 1,
                              !.failed = @ \/ ~r.returned,
                              !.succeeded = IF r.returned
                                            THEN @ \cup {cleanup.reads[cleanup.i].id}
                                            ELSE @,
                              !.i = @ + 1])
           /\ CleanupStep(r)

\* deleteRead returns
deleteRead(resp) ==
    /\ cleanup.pc = "delete"
    /\ LET r == graphqlRequest(circuitBreaker, resp)
       IN  /\ cleanup' = deleteOthers([cleanup EXCEPT
                              !.deleted = IF r.returned THEN @ + 1 ELSE @,
                              !.failed = @ \/ ~r.returned,
                              !.succeeded = IF r.returned
                                            THEN @ \cup {cleanup.reads[cleanup.i].id}
                                            ELSE @,
                              !.i = @ + 1])
           /\ CleanupStep(r)

\* a cleanup that is about to start over the remote reads r
NewCleanup(r) ==
    [pc |-> "reads", remote |-> r, fetched |-> FALSE,
     reads |-> <<>>, bestRead |-> 0, i |-> 0, deleted |-> 0,
     failed |-> FALSE, requested |-> {}, succeeded |-> {},
     result |-> [deleted |-> 0, kept |-> 0]]

CleanupInit ==
    /\ ClientInit /\ HistoryInit /\ config = SyncConfig
    /\ settings = [strategy |-> "prompt", syncFrequency |-> "page"]
    /\ book = [isFixedLayout |-> FALSE, updatedAt |-> 0]
    /\ remote = [pages |-> 0]
    /\ hook = [phase |-> "closed"]
    /\ pageMap = NoPageMap
    /\ matching = NoMatching
    /\ \E r \in ReadLists : cleanup = NewCleanup(r)
    /\ lastPull = [id |-> 0]
    /\ closeLog = NoCloseLog
    /\ statusLog = NoStatusLog
    /\ readLog = NoReadLog

CleanupNext ==
    \/ \E resp \in CleanupResponses : getAllReads(resp)
    \/ \E resp \in CleanupResponses : deleteRead(resp)

SpecCleanup == CleanupInit /\ [][CleanupNext]_vars

\* the progress value of the i-th remote session, missing counted as 0
SessionProgress(i) ==
    IF cleanup.remote[i].progress_pages = Null THEN 0
    ELSE cleanup.remote[i].progress_pages

\* the earliest listed of the sessions with the highest progress value
SessionToKeep ==
    CHOOSE i \in 1 .. Len(cleanup.remote) :
        /\ \A j \in 1 .. Len(cleanup.remote) : SessionProgress(j) <= SessionProgress(i)
        /\ \A j \in 1 .. i - 1 : SessionProgress(j) < SessionProgress(i)

toLowerCase(str) ==
    [i \in DOMAIN str |-> CASE str[i] = "A" -> "a"
                            [] str[i] = "B" -> "b"
                            [] OTHER -> str[i]]

RECURSIVE levenshteinDistance(_, _)
\* matrix[str2.length][str1.length]: the entry for two prefixes is the
\* entry of the diagonal if their last letters agree, else one more than
\* the least of its three neighbours
levenshteinDistance(str1, str2) ==
    IF Len(str2) = 0 THEN Len(str1)
    ELSE IF Len(str1) = 0 THEN Len(str2)
    ELSE LET a == SubSeq(str1, 1, Len(str1) - 1)
             b == SubSeq(str2, 1, Len(str2) - 1)
         IN  IF str2[Len(str2)] = str1[Len(str1)]
             THEN levenshteinDistance(a, b)
             ELSE Min({levenshteinDistance(a, b) + 1,
                       levenshteinDistance(a, str2) + 1,
                       levenshteinDistance(str1, b) + 1})

\* the similarity of two strings, as the fraction num / den
stringSimilarity(str1, str2) ==
    LET longer  == IF Len(str1) > Len(str2) THEN str1 ELSE str2
        shorter == IF Len(str1) > Len(str2) THEN str2 ELSE str1
    IN  IF Len(longer) = 0 THEN [num |-> 1, den |-> 1]
        ELSE [num |-> Len(longer) - levenshteinDistance(longer, shorter),
              den |-> Len(longer)]

RECURSIVE join(_)
\* authors.map((a) => a.name).join(' ')
join(names) ==
    IF names = <<>> THEN <<>>
    ELSE IF Len(names) = 1 THEN names[1]
    ELSE names[1] \o <<" ">> \o join(Tail(names))

\* the score of candidate hb for the book, as the fraction num / den
score(b, hb) ==
    LET titleMatch  == stringSimilarity(toLowerCase(b.title), toLowerCase(hb.title))
        authorMatch == stringSimilarity(toLowerCase(b.author),
                                        toLowerCase(join(hb.authors)))
    IN  [num |-> titleMatch.num * 70 * authorMatch.den
                   + authorMatch.num * 30 * titleMatch.den,
         den |-> titleMatch.den * authorMatch.den]

\* x > y for two fractions
Greater(x, y) == x.num * y.den > y.num * x.den

\* scored[0] after the sort by falling score, which keeps the order of
\* candidates of equal score: the index of the candidate
scoredFirst(b, results) ==
    Min({i \in 1 .. Len(results) :
            \A j \in 1 .. Len(results) :
                ~Greater(score(b, results[j]), score(b, results[i]))})

\* the scoring part of the client's matchBook with a score of 60 accepted
scoreMatch_Mut(b, results) ==
    IF Len(results) > 0
    THEN LET best == results[scoredFirst(b, results)]
         IN  IF ~Greater([num |-> 60, den |-> 1], score(b, best))
             THEN best.id ELSE 0
    ELSE 0

\* the scoring part of the client's matchBook: the id of the book it
\* returns, 0 for null
scoreMatch(b, results) ==
    IF Len(results) > 0
    THEN LET best == results[scoredFirst(b, results)]
         IN  IF Greater(score(b, best), [num |-> 60, den |-> 1])
             THEN best.id ELSE 0
    ELSE 0

\* the ISBN part of the client's matchBook: the id of the exact match, 0
\* for none
exactMatch(b, results) ==
    LET hits == {i \in 1 .. Len(results) :
                    results[i].isbn_13 = b.isbn \/ results[i].isbn_10 = b.isbn}
    IN  IF hits = {} THEN 0 ELSE results[Min(hits)].id

\* the strings of the model
Word(n) ==
    CASE n = 0 -> <<>>
      [] n = 1 -> <<"a", "b", "a", "b">>
      [] n = 2 -> <<"A", "B", "a", "b">>
      [] n = 3 -> <<"a", "b", "a", "a">>
      [] n = 4 -> <<"b", "b", "a", "a">>
      [] n = 5 -> <<"b", "b", "b", "a">>
      [] n = 6 -> <<"a", "b">>

BookTitles == {Word(2)}
BookAuthors == {Word(0), Word(1)}
Isbns == {"", "isbn1"}
HitTitles == {Word(1), Word(3), Word(4)}
HitAuthors == {<<>>, <<Word(1)>>, <<Word(5)>>, <<Word(6), Word(6)>>}

\* the answers of the title and author search: up to MaxCandidates hits
TitleHits ==
    UNION {{r \in [1 .. n -> [id : 1 .. MaxCandidates, title : HitTitles,
                              authors : HitAuthors, isbn_13 : {""},
                              isbn_10 : {""}]] :
               \A i \in 1 .. n : r[i].id = i} : n \in 0 .. MaxCandidates}

\* the answers of the ISBN search: nothing, the book by either ISBN, or
\* another book
IsbnHits ==
    {<<>>} \cup
    {<<[id |-> MaxCandidates + 1, title |-> Word(0), authors |-> <<>>,
        isbn_13 |-> x[1], isbn_10 |-> x[2]]>> :
        x \in {<<"isbn1", "">>, <<"", "isbn1">>, <<"isbn2", "">>}}

MatchResponses == {"ok", "http401", "fetchThrows", "http5xx"}

MatchStep(w, m) ==
    /\ hook' = w.h
    /\ circuitBreaker' = w.cb
    /\ matching' = m
    /\ UNCHANGED <<now, config, requestTimestamps, req, settings, book, remote,
                   pageMap, cleanup, hookHistoryVars, historyVars>>

\* the catch block of the hook's matchBook; the pull that called it then
\* returns
matchFailed(w, error) ==
    [w EXCEPT !.h.syncState = "error",
              !.h.isPulling = FALSE,
              !.h.toast = IF error = "HARDCOVER_CIRCUIT_OPEN" THEN @
                          ELSE IF error = "HARDCOVER_AUTH_FAILED" THEN "authFailed"
                          ELSE IF error = "HARDCOVER_NETWORK_ERROR" THEN "network"
                          ELSE @]

\* auto-match has found nothing: the manual matching dialog; the pull that
\* called matchBook then returns
matchManually(w) ==
    [w EXCEPT !.h.needsMatching = TRUE,
              !.h.syncState = "idle",
              !.h.isPulling = FALSE]

\* the next request of matchBook: graphqlRequest asks the gate first
matchRequest(w, m, pc) ==
    LET gate == canMakeRequest(w.cb, now)
    IN  IF gate.allowed
        THEN <<[w EXCEPT !.cb = gate.cb], [m EXCEPT !.pc = pc]>>
        ELSE IF pc \in {"isbn", "search"}
        THEN <<matchFailed([w EXCEPT !.cb = gate.cb], "HARDCOVER_CIRCUIT_OPEN"),
               [m EXCEPT !.pc = "done"]>>
        ELSE \* getUserBook and addBookToLibrary catch it and return null
             <<matchManually([w EXCEPT !.cb = gate.cb]), [m EXCEPT !.pc = "done"]>>

\* the client's matchBook has returned hb (0 for null)
matchReturned(w, m, hb) ==
    LET m1 == [m EXCEPT !.returned = TRUE, !.matched = hb]
    IN  IF hb # 0 THEN matchRequest(w, m1, "userBook")
        ELSE <<matchManually(w), [m1 EXCEPT !.pc = "done"]>>

\* the render of the first position: the pull-once effect calls
\* pullProgress, which calls matchBook for the book that is not linked;
\* matchBook starts the ISBN search, or the title search for a book
\* without ISBN. The other effects of this render do nothing: the pull
\* is under way and the book is not linked.
MatchStart ==
    /\ matching.pc = "start"
    /\ "progress" \in hook.dirty /\ ~hook.hasPulledOnce /\ ~hook.pending
    /\ hook.hardcoverId = 0
    /\ LET w  == [World EXCEPT !.h.closure = Rendered(hook), !.h.dirty = {},
                               !.h.hasPulledOnce = TRUE, !.h.isPulling = TRUE,
                               !.h.syncState = "matching"]
           to == matchRequest(w, matching,
                              IF matching.book.isbn # "" THEN "isbn" ELSE "search")
       IN  MatchStep(to[1], to[2])

\* the ISBN search answers
IsbnRespond(resp) ==
    /\ matching.pc = "isbn" /\ Quiet
    /\ LET w  == [World EXCEPT !.cb = AfterResponse(circuitBreaker, resp, now)]
           hb == exactMatch(matching.book, matching.isbnHits)
           m  == [matching EXCEPT !.exact = hb # 0]
           to == IF resp # "ok"
                 THEN <<matchFailed(w, ErrorOf(resp)), [matching EXCEPT !.pc = "done"]>>
                 ELSE IF hb # 0 THEN matchReturned(w, m, hb)
                 ELSE matchRequest(w, m, "search")
       IN  MatchStep(to[1], to[2])

\* the title and author search answers
SearchRespond(resp) ==
    /\ matching.pc = "search" /\ Quiet
    /\ LET w  == [World EXCEPT !.cb = AfterResponse(circuitBreaker, resp, now)]
           m  == [matching EXCEPT !.results = matching.titleHits]
           to == IF resp # "ok"
                 THEN <<matchFailed(w, ErrorOf(resp)), [matching EXCEPT !.pc = "done"]>>
                 ELSE matchReturned(w, m, scoreMatch(matching.book, m.results))
       IN  MatchStep(to[1], to[2])

\* the book is linked: setConfig with the id of the user book
matchLinked(w, m, userBookId) ==
    <<[w EXCEPT !.h.hardcoverId = userBookId,
                !.h.dirty = @ \cup {"config"},
                !.h.syncState = "synced"],
      [m EXCEPT !.pc = "linked"]>>

\* getUserBook of the matched book answers: the user book, or null (also
\* for a failed request); without one, addBookToLibrary asks for the user
MatchUserBookRespond(resp, userBookId) ==
    /\ matching.pc = "userBook" /\ Quiet
    /\ resp = "ok" \/ userBookId = 0
    /\ LET w  == [World EXCEPT !.cb = AfterResponse(circuitBreaker, resp, now)]
           to == IF userBookId # 0 THEN matchLinked(w, matching, userBookId)
                 ELSE matchRequest(w, matching, "me")
       IN  MatchStep(to[1], to[2])

\* addBookToLibrary: the privacy setting of the user answers
MatchMeRespond(resp) ==
    /\ matching.pc = "me" /\ Quiet
    /\ LET w  == [World EXCEPT !.cb = AfterResponse(circuitBreaker, resp, now)]
           to == IF resp # "ok"
                 THEN <<matchManually(w), [matching EXCEPT !.pc = "done"]>>
                 ELSE matchRequest(w, matching, "add")
       IN  MatchStep(to[1], to[2])

\* addBookToLibrary: the insertion answers with the id of the user book,
\* or with an error or nothing
MatchAddRespond(resp, userBookId) ==
    /\ matching.pc = "add" /\ Quiet
    /\ resp = "ok" \/ userBookId = 0
    /\ LET w  == [World EXCEPT !.cb = AfterResponse(circuitBreaker, resp, now)]
           to == IF userBookId # 0 THEN matchLinked(w, matching, userBookId)
                 ELSE <<matchManually(w), [matching EXCEPT !.pc = "done"]>>
       IN  MatchStep(to[1], to[2])

MatchInit ==
    /\ ClientInit /\ HistoryInit /\ config = SyncConfig
    /\ settings = [strategy |-> "prompt", syncFrequency |-> "session"]
    /\ book = [isFixedLayout |-> FALSE, updatedAt |-> 1]
    /\ remote = [pages |-> 0]
    /\ hook = [NewHook EXCEPT !.hardcoverId = 0]
    /\ pageMap = NoPageMap
    /\ cleanup = NoCleanup
    /\ \E b \in [title : BookTitles, author : BookAuthors, isbn : Isbns] :
          \E ih \in IF b.isbn = "" THEN {<<>>} ELSE IsbnHits, th \in TitleHits :
              matching = [pc |-> "start", book |-> b, isbnHits |-> ih,
                          titleHits |-> th, results |-> <<>>, exact |-> FALSE,
                          returned |-> FALSE, matched |-> 0]
    /\ lastPull = [id |-> 0]
    /\ closeLog = NoCloseLog
    /\ statusLog = NoStatusLog
    /\ readLog = NoReadLog

MatchNext ==
    \/ /\ matching.pc = "start" /\ hook.progress = 0
       /\ LocalProgress(LocalTotal \div 2) /\ NoHistory
    \/ /\ hook.hasPulledOnce \/ hook.progress = 0
       /\ Commit /\ NoHistory
    \/ MatchStart
    \/ \E resp \in MatchResponses : IsbnRespond(resp)
    \/ \E resp \in MatchResponses : SearchRespond(resp)
    \/ \E resp \in {"ok", "http5xx"}, userBookId \in {0, 1} :
          MatchUserBookRespond(resp, userBookId)
    \/ \E resp \in {"ok", "http5xx"} : MatchMeRespond(resp)
    \/ \E resp \in {"ok", "http5xx"}, userBookId \in {0, 1} :
          MatchAddRespond(resp, userBookId)

SpecMatch == MatchInit /\ [][MatchNext]_vars

\* the candidates of the title search that no other candidate outscores
TopCandidates ==
    {i \in 1 .. Len(matching.titleHits) :
        \A j \in 1 .. Len(matching.titleHits) :
            ~Greater(score(matching.book, matching.titleHits[j]),
                     score(matching.book, matching.titleHits[i]))}

\* the highest score is strictly greater than 60
TopScoreAboveSixty ==
    \E i \in TopCandidates :
        LET sc == score(matching.book, matching.titleHits[i])
        IN  sc.num > 60 * sc.den

\* the title search answers and the matcher returns
MatcherReturns ==
    matching.pc = "search" /\ matching'.returned /\ ~matching'.exact

\* C22: without an exact ISBN match, the matcher returns a candidate of
\* the highest score if that score is strictly greater than 60; otherwise
\* it returns no match, manual matching is requested and the book stays
\* unlinked
C22_MatchIffAboveSixty ==
    [][MatcherReturns =>
          IF TopScoreAboveSixty
          THEN matching'.matched \in {matching.titleHits[i].id : i \in TopCandidates}
          ELSE /\ matching'.matched = 0
               /\ matching'.pc = "done"
               /\ hook'.needsMatching /\ hook'.hardcoverId = 0]_vars

\* the best candidate scores exactly 60: no match, manual matching
C22_Witness ==
    /\ matching.pc = "done" /\ matching.returned /\ ~matching.exact
    /\ \E i \in TopCandidates :
          LET sc == score(matching.book, matching.titleHits[i])
          IN  sc.num = 60 * sc.den
    /\ matching.matched = 0
    /\ hook.needsMatching /\ hook.syncState = "idle" /\ ~hook.isPulling

\* ---------------------------------------------------------------------
\* forceHardcoverSync in session mode: the application calls it at the
\* close of the book, with pushes of push events under way or not, any
\* write succeeding or failing, and once more after the unmount
\* ---------------------------------------------------------------------
ForceInit ==
    SyncInit /\ settings = [strategy |-> "send", syncFrequency |-> "session"]

ForceNext ==
    \/ LocalProgress(LocalTotal \div 2) /\ NoHistory
    \/ Commit /\ NoHistory
    \/ handlePushProgress /\ NoHistory
    \/ \E p \in ActivePushes(hook) :
          \E resp \in {"ok", "fetchThrows"},
             out \in UpdateOutcomes \cup CreateOutcomes, id \in ReadIds :
              PushRespond(p, resp, out, id) /\ ObservePush
    \/ CloseForce /\ ObserveClose
    \/ Unmount /\ ObserveClose
    \/ ForceClosed /\ ObserveClose

SpecForce == ForceInit /\ [][ForceNext]_vars

\* the call of forceHardcoverSync after the unmount
ForcedUnregistered == "forceClosed" \in hook'.closeCalls \ hook.closeCalls

\* C23: a resolved forceHardcoverSync call has no write that it started
\* still under way, and the call after the unmount starts no write and
\* leaves the writes and the gate as they are
C23_ForceAwaitsItsWrite ==
    [][/\ hook'.forceCall.pc = "resolved" => closeLog'.forced = {}
       /\ ForcedUnregistered =>
             /\ hook'.forceCall.pc = "resolved"
             /\ hook'.pushes = hook.pushes
             /\ circuitBreaker' = circuitBreaker]_vars

\* the forced write fell back from update to create and completed while a
\* push of a push event was still under way; the call has resolved
C23_Witness ==
    /\ hook.forceCall.pc = "resolved" /\ closeLog.forceWrote
    /\ closeLog.forced = {}
    /\ ActivePushes(hook) # {}
    /\ hook.phase = "closing"

\* ---------------------------------------------------------------------
\* The request budget across client instances (SpecThrottle: two clients
\* with the same budget)
\* ---------------------------------------------------------------------

\* C24: while each client instance is within its budget, the fetch calls
\* that all instances together made in the last 60 s never outnumber the
\* budget
C24_SharedBudget ==
    (\A c \in Clients : Len(httpCalls[c]) <= Buffer(c)) =>
        Len(httpCalls[1]) + Len(httpCalls[2]) <= Buffer(1)

\* ---------------------------------------------------------------------
\* The gate in HALF_OPEN (SpecGate: any callers, any responses)
\* ---------------------------------------------------------------------

\* C25: the gate is never HALF_OPEN with its probe slot consumed and no
\* request under way: the outcome of the probe has closed or reopened it
C25_ProbeSettlesGate ==
    ~(/\ circuitBreaker.state = "HALF_OPEN"
      /\ circuitBreaker.halfOpenAttempts >= CIRCUIT_BREAKER_HALF_OPEN_REQUESTS
      /\ \A s \in Slots : req[s].pc = "idle")

\* ---------------------------------------------------------------------
\* SpecGateOutcomes: SpecGate, observing the probes and how requests end
\* ---------------------------------------------------------------------
\* a request that goes on while the gate is HALF_OPEN is a probe; the one that
\* takes the gate out of OPEN starts a new round of probes
ObserveProbe(s, c) ==
    LET gate  == canMakeRequest(circuitBreaker, now)
        sent  == IssueVerdict(c) \in {"throttle", "http"}
        round == IF circuitBreaker.state = "OPEN" THEN {} ELSE gateLog.probe
    IN  /\ gateLog' =
              [probe |-> IF gate.cb.state = "HALF_OPEN"
                         THEN (IF sent THEN round \cup {s} ELSE round)
                         ELSE gateLog.probe,
               resp  |-> "none",
               recovery |-> gateLog.recovery]
        /\ UNCHANGED <<httpCalls, streak, streakAt, nonAuthFailures, probes>>

ObserveResponse(s, resp) ==
    /\ gateLog' = [gateLog EXCEPT !.probe = @ \ {s}, !.resp = resp]
    /\ UNCHANGED <<httpCalls, streak, streakAt, nonAuthFailures, probes>>

ObserveNoResponse ==
    /\ gateLog' = [gateLog EXCEPT !.resp = "none"]
    /\ UNCHANGED <<httpCalls, streak, streakAt, nonAuthFailures, probes>>

GateOutcomesNext ==
    \/ \E s \in Slots, c \in Clients : Issue(s, c) /\ ObserveProbe(s, c)
    \/ \E s \in Slots, resp \in Responses : Respond(s, resp) /\ ObserveResponse(s, resp)
    \/ Tick /\ ObserveNoResponse

SpecGateOutcomes == GateInit /\ [][GateOutcomesNext]_vars

\* the request in slot s ends in this step
Completes(s) == req[s].pc = "http" /\ req'[s].pc = "idle"

\* the request in slot s is a probe and ends in this step, the gate HALF_OPEN
ProbeCompletes(s) ==
    /\ Completes(s)
    /\ s \in gateLog.probe
    /\ circuitBreaker.state = "HALF_OPEN"

\* C26: a probe that succeeds closes the gate with failure count 0; a probe
\* that fails, other than for authentication, reopens it with failure count 3
\* and the timeout running from now; any request that succeeds leaves the
\* failure count at 0
C26_ProbeOutcome ==
    [][\A s \in Slots :
          /\ (Completes(s) /\ gateLog'.resp = "ok")
                => circuitBreaker'.failureCount = 0
          /\ (ProbeCompletes(s) /\ gateLog'.resp = "ok")
                => circuitBreaker'.state = "CLOSED"
          /\ (ProbeCompletes(s) /\ NonAuthFailure(gateLog'.resp))
                => /\ circuitBreaker'.state = "OPEN"
                   /\ circuitBreaker'.failureCount = CIRCUIT_BREAKER_THRESHOLD
                   /\ circuitBreaker'.lastFailureTime = now]_vars

\* C27: a request that is no probe of this round (it was admitted before the
\* gate became HALF_OPEN) and ends while the gate is HALF_OPEN leaves the gate
\* HALF_OPEN
C27_LateCompletionLeavesGate ==
    [][\A s \in Slots :
          (/\ Completes(s)
           /\ circuitBreaker.state = "HALF_OPEN"
           /\ s \notin gateLog.probe)
             => circuitBreaker'.state = "HALF_OPEN"]_vars

\* ---------------------------------------------------------------------
\* Overlapping pulls and conflict resolution (SpecSync)
\* ---------------------------------------------------------------------

\* C28: while a pull awaits the remote, the pulling guard is set
C28_GuardCoversEveryPull ==
    (\E id \in PullIds : hook.phase # "closed" /\ hook.pulls[id].pc = "fetch")
        => hook.isPulling

\* the conflict is resolved with keep-local in this step
ResolvedWithLocal ==
    /\ hook.conflictDetails.present
    /\ ~hook'.conflictDetails.present
    /\ hook'.resolveTimer = hook.resolveTimer
    /\ hook'.progress = hook.progress

\* C29: the step that resolves a conflict with keep-local sends the local
\* progress: its push passes the guards and starts its write
C29_KeepLocalPushes == [][ResolvedWithLocal => PushStarted]_vars

\* ---------------------------------------------------------------------
\* SpecPullFail: pulls whose getUserBook request may fail, observing how
\* the request of each pull ended
\* ---------------------------------------------------------------------
PullResponses == {"ok", "fetchThrows", "http5xx", "gqlOther"}

PullFailInit ==
    SyncInit /\ settings = [strategy |-> "prompt", syncFrequency |-> "session"]

\* the answer to the pull's request
ObservePullAnswer(resp) ==
    /\ gateLog' = [gateLog EXCEPT !.resp = resp]
    /\ UNCHANGED <<httpCalls, streak, streakAt, nonAuthFailures, probes,
                   hookHistoryVars>>

\* the pull's request is rejected by the gate or goes out
ObservePullStart ==
    /\ gateLog' = [gateLog EXCEPT
                      !.resp = IF canMakeRequest(circuitBreaker, now).allowed
                               THEN "none" ELSE "HARDCOVER_CIRCUIT_OPEN"]
    /\ UNCHANGED <<httpCalls, streak, streakAt, nonAuthFailures, probes,
                   hookHistoryVars>>

PullFailNext ==
    \/ \E p \in SyncPages : LocalProgress(p) /\ ObserveNoResponse
                                             /\ UNCHANGED hookHistoryVars
    \/ Commit /\ ObserveNoResponse /\ UNCHANGED hookHistoryVars
    \/ \E id \in PullIds : handlePullProgress(id) /\ ObservePullStart
    \/ \E id \in PullIds :
          /\ hook.pulls[id].pc = "fetch"
          /\ \E resp \in PullResponses, ub \in SyncUserBooks :
                PullRespond(id, resp, ub) /\ ObservePullAnswer(resp)

SpecPullFail == PullFailInit /\ [][PullFailNext]_vars

\* C30: the step in which the fetch-user-book request of a pull fails or is
\* rejected by the open gate does not leave the sync state synced
C30_FailedPullNotSynced ==
    [][gateLog'.resp \notin {"none", "ok"} => hook'.syncState # "synced"]_vars

\* ---------------------------------------------------------------------
\* SpecRecovery: SpecFail's pushes, observing the recoveries of the gate
\* and the notices of them
\* ---------------------------------------------------------------------
\* a recovery awaits its notice from the probe's success until a push emits
\* 'Hardcover sync restored'
ObserveRecovery ==
    /\ gateLog' =
          [gateLog EXCEPT
              !.recovery =
                  IF hook'.toast = "restored" THEN FALSE
                  ELSE IF /\ circuitBreaker.state = "HALF_OPEN"
                          /\ circuitBreaker'.state = "CLOSED"
                  THEN TRUE
                  ELSE @]
    /\ UNCHANGED <<httpCalls, streak, streakAt, nonAuthFailures, probes,
                   hookHistoryVars>>

RecoveryNext ==
    \/ \E p \in SyncPages : LocalProgress(p) /\ ObserveRecovery
    \/ Commit /\ ObserveRecovery
    \/ /\ ActivePushes(hook) = {}
       /\ handlePushProgress /\ ObserveRecovery
    \/ \E p \in ActivePushes(hook) :
          \E resp \in FailResponses, out \in UpdateOutcomes \cup CreateOutcomes,
             id \in ReadIds :
              PushRespond(p, resp, out, id) /\ ObserveRecovery
    \/ Tick /\ ObserveRecovery

SpecRecovery == FailInit /\ [][RecoveryNext]_vars

\* C31: a push that succeeds, and so consumes the recovery flag, emits the
\* restored notice exactly when a recovery of the gate awaits its notice
C31_OneNoticePerRecovery ==
    [][PushSucceeds =>
          (hook'.toast = "restored"
              <=> (gateLog.recovery \/ circuitBreaker.state = "HALF_OPEN"))]_vars

\* ---------------------------------------------------------------------
\* SpecGateIssue: the gate under requests that are answered or fail in
\* transport, observing what became of each request when it was issued
\* ---------------------------------------------------------------------
IssueVerdicts == {"HARDCOVER_CIRCUIT_OPEN", "HARDCOVER_AUTH_FAILED", "throttle", "http"}

ObserveVerdict(c) ==
    /\ gateLog' = [gateLog EXCEPT !.resp = IssueVerdict(c)]
    /\ UNCHANGED <<httpCalls, streak, streakAt, nonAuthFailures, probes>>

GateIssueNext ==
    \/ \E s \in Slots, c \in Clients : Issue(s, c) /\ ObserveVerdict(c)
    \/ \E s \in Slots, resp \in {"ok", "fetchThrows"} :
          Respond(s, resp) /\ ObserveResponse(s, resp)
    \/ Tick /\ ObserveNoResponse

SpecGateIssue == GateInit /\ [][GateIssueNext]_vars

\* the gate is OPEN and its timeout has not elapsed
OpenWithinTimeout ==
    /\ circuitBreaker.state = "OPEN"
    /\ now - circuitBreaker.lastFailureTime < CIRCUIT_BREAKER_TIMEOUT

\* C32: a request issued while the gate is OPEN within its timeout is
\* rejected with CIRCUIT_OPEN; it starts no fetch and no wait, records no
\* timestamp and leaves the gate as it was
C32_RejectionLeavesNoTrace ==
    [][(OpenWithinTimeout /\ gateLog'.resp \in IssueVerdicts)
          => /\ gateLog'.resp = "HARDCOVER_CIRCUIT_OPEN"
             /\ UNCHANGED <<circuitBreaker, requestTimestamps, req>>]_vars

\* a request has just been rejected by the open gate, some time after the
\* last failure
C32_Witness ==
    /\ gateLog.resp = "HARDCOVER_CIRCUIT_OPEN"
    /\ OpenWithinTimeout
    /\ now > circuitBreaker.lastFailureTime
    /\ circuitBreaker.failureCount = CIRCUIT_BREAKER_THRESHOLD

\* ---------------------------------------------------------------------
\* SpecStale: SpecFail's pushes, observing the read ids that the remote
\* has reported finished or missing
\* ---------------------------------------------------------------------
\* an update answered with an error or a finished read reports its read id
\* stale; a read that the remote creates or updates is not stale
ObserveStale(p, resp, out, id) ==
    LET t == hook.pushes[p]
    IN  /\ readLog' =
              [readLog EXCEPT !.stale =
                  IF resp = "ok" /\ t.pc = "update" /\ out \in {"error", "finished"}
                  THEN @ \cup {t.bookConfig.hardcoverReadId}
                  ELSE IF resp = "ok" /\ out \in {"created", "updated"}
                  THEN @ \ {id}
                  ELSE @]
        /\ UNCHANGED <<historyVars, lastPull, closeLog, statusLog>>

StaleNext ==
    \/ \E p \in SyncPages : LocalProgress(p) /\ NoHistory
    \/ Commit /\ NoHistory
    \/ /\ ActivePushes(hook) = {}
       /\ handlePushProgress /\ NoHistory
    \/ \E p \in ActivePushes(hook) :
          \E resp \in FailResponses, out \in UpdateOutcomes \cup CreateOutcomes,
             id \in ReadIds :
              PushRespond(p, resp, out, id) /\ ObserveStale(p, resp, out, id)

SpecStale == FailInit /\ [][StaleNext]_vars

\* C33: no push sends its write as an update of a read id that the remote
\* has reported finished or missing
C33_NoUpdateOfStaleRead ==
    [][\A p \in PushIds :
          (hook.pushes[p].pc = "idle" /\ hook'.pushes[p].pc = "update")
             => hook'.pushes[p].bookConfig.hardcoverReadId \notin readLog.stale]_vars

\* ---------------------------------------------------------------------
\* The resolution of a conflict (SpecAuto)
\* ---------------------------------------------------------------------
\* the conflict is resolved with apply-remote in this step
ResolvedWithRemote ==
    /\ hook.conflictDetails.present
    /\ ~hook'.conflictDetails.present
    /\ ~hook.resolveTimer /\ hook'.resolveTimer

\* the settle delay of apply-remote ends in this step
SettleElapsed == hook.resolveTimer /\ ~hook'.resolveTimer

\* C34: the resolution of a conflict leaves no conflict record and the sync
\* state synced; the pulling guard is false at once after keep-local and
\* when the settle delay of apply-remote has passed
C34_ResolutionUnblocks ==
    [][/\ ResolvedWithLocal
            => /\ ~hook'.conflictDetails.present
               /\ hook'.syncState = "synced"
               /\ ~hook'.isPulling
       /\ ResolvedWithRemote
            => /\ ~hook'.conflictDetails.present
               /\ hook'.syncState = "synced"
       /\ SettleElapsed => ~hook'.isPulling]_vars

\* apply-remote has resolved a conflict and its settle delay is running
C34_Witness ==
    /\ hook.resolveTimer
    /\ hook.isPulling
    /\ ~hook.conflictDetails.present
    /\ hook.syncState = "synced"

\* ---------------------------------------------------------------------
\* Sync state and conflict record (SpecSync)
\* ---------------------------------------------------------------------

\* C35: the sync state of an open book is conflict exactly when a conflict
\* record is present
C35_ConflictStateIffRecord ==
    hook.phase # "closed" =>
        (hook.syncState = "conflict" <=> hook.conflictDetails.present)

\* ---------------------------------------------------------------------
\* SpecCreate: a linked book without a stored read id under send, pushes
\* scheduled by the position reports and requested at any time, a remote that carries out every write; observing the reads
\* the remote creates
\* ---------------------------------------------------------------------
ObserveCreate(p) ==
    /\ readLog' = [readLog EXCEPT
                      !.created = IF hook.pushes[p].pc = "create" THEN @ + 1 ELSE @]
    /\ UNCHANGED <<historyVars, lastPull, closeLog, statusLog>>

CreateNext ==
    \/ \E p \in SyncPages : LocalProgress(p) /\ NoHistory
    \/ Commit /\ NoHistory
    \/ DebounceFires /\ NoHistory
    \/ handlePushProgress /\ NoHistory
    \/ \E p \in ActivePushes(hook), id \in ReadIds :
          /\ PushRespond(p, "ok",
                         IF hook.pushes[p].pc = "create" THEN "created" ELSE "updated",
                         id)
          /\ ObserveCreate(p)

CreateInit == SyncInit /\ settings.strategy = "send"

SpecCreate == CreateInit /\ [][CreateNext]_vars

\* C36: the pushes of the book make the remote create at most one read
C36_AtMostOneReadCreated == readLog.created <= 1

\* ---------------------------------------------------------------------
\* The order of the steps of a request (SpecGateIssue)
\* ---------------------------------------------------------------------

\* C37: a request that is rejected for its missing credential has passed the
\* throttle step before: its time is the last one in its client's window
C37_ThrottleBeforeCredential ==
    [][gateLog'.resp = "HARDCOVER_AUTH_FAILED"
          => \E c \in Clients :
                /\ config[c].apiToken = ""
                /\ requestTimestamps'[c] # <<>>
                /\ requestTimestamps'[c][Len(requestTimestamps'[c])] = now]_vars

\* C38: while the gate is OPEN the failure count is at least the threshold
C38_OpenImpliesThreshold ==
    circuitBreaker.state = "OPEN"
        => circuitBreaker.failureCount >= CIRCUIT_BREAKER_THRESHOLD

\* ---------------------------------------------------------------------
\* SpecPullLive: the pulls of an open book in session mode under every
\* strategy, answered or failing in transport, with the conflict dialog;
\* renders are committed, requests settle and timers fire
\* ---------------------------------------------------------------------
PullLiveInit == SyncInit /\ settings.syncFrequency = "session"

\* the answers of the remote: those of SpecSync with one read id
LiveUserBooks == {ub \in SyncUserBooks : ub.readId <= 1}

\* one 'pull-hardcover' pull at a time beside the pull on book open
LivePulls == {OpenPull, OpenPull + 1}

PullAnswered(id) ==
    /\ hook.pulls[id].pc = "fetch"
    /\ \E resp \in {"ok", "fetchThrows"}, ub \in LiveUserBooks :
          PullRespond(id, resp, ub) /\ NoHistory

PullLiveNext ==
    \/ \E p \in SyncPages : LocalProgress(p) /\ NoHistory
    \/ Commit /\ NoHistory
    \/ \E id \in LivePulls : handlePullProgress(id) /\ NoHistory
    \/ \E id \in LivePulls : PullAnswered(id)
    \/ \E id \in LivePulls : Settle(id) /\ NoHistory
    \/ resolveWithLocal /\ NoHistory
    \/ resolveWithRemote /\ NoHistory
    \/ ResolveSettle /\ NoHistory

PullLiveFairness ==
    /\ WF_vars(Commit /\ NoHistory)
    /\ \A id \in LivePulls : SF_vars(PullAnswered(id))
    /\ \A id \in LivePulls : SF_vars(Settle(id) /\ NoHistory)
    /\ SF_vars(ResolveSettle /\ NoHistory)

SpecPullLive == PullLiveInit /\ [][PullLiveNext]_vars /\ PullLiveFairness

GateReadLists ==
    UNION {{[i \in 1 .. n |-> [id |-> i, progress_pages |-> p[i]]] :
               p \in [1 .. n -> {Null, MaxProgress}]} : n \in 0 .. MaxReads + 3}

CleanupGateInit ==
    /\ ClientInit /\ HistoryInit /\ config = SyncConfig
    /\ settings = [strategy |-> "prompt", syncFrequency |-> "page"]
    /\ book = [isFixedLayout |-> FALSE, updatedAt |-> 0]
    /\ remote = [pages |-> 0]
    /\ hook = [phase |-> "closed"]
    /\ pageMap = NoPageMap
    /\ matching = NoMatching
    /\ \E r \in GateReadLists : cleanup = NewCleanup(r)
    /\ lastPull = [id |-> 0]
    /\ closeLog = NoCloseLog
    /\ statusLog = NoStatusLog
    /\ readLog = NoReadLog

SpecCleanupGate == CleanupGateInit /\ [][CleanupNext]_vars

\* C40: a cleanup never requests the deletion of the read it keeps, and the
\* count it reports is the number of its delete requests that returned
C40_CleanupCountsDeletions ==
    /\ (cleanup.pc \in {"delete", "done"} /\ cleanup.bestRead # 0)
          => cleanup.reads[cleanup.bestRead].id \notin cleanup.requested
    /\ cleanup.pc = "done"
          => cleanup.result.deleted = Cardinality(cleanup.succeeded)

\* the gate opened during the cleanup: one deletion succeeded, three failed
\* in transport and one was rejected
C40_Witness ==
    /\ cleanup.pc = "done"
    /\ circuitBreaker.state = "OPEN"
    /\ cleanup.result.deleted >= 1
    /\ cleanup.result.deleted = Cardinality(cleanup.succeeded)
    /\ Cardinality(cleanup.requested \ cleanup.succeeded) >= 4
    /\ Len(requestTimestamps[1]) < Cardinality(cleanup.requested) + 1

====
